---- MODULE Spec2Model ----
(***************************************************************************)
(* PYME rule server (PYME/cluster/ruleserver.py): IntegerIDRule, the task  *)
(* state machine of one rule, and RuleServer, the registry of rules with   *)
(* its background sweep (_poll_rules).                                     *)
(*                                                                         *)
(* Every method body that mutates the task array runs inside               *)
(* `with self._info_lock`, so a method is one atomic action.  The sweep    *)
(* thread is modelled with its own program counter: a snapshot of the      *)
(* registry keys, then for each key poll_timeouts followed by the          *)
(* finished / expired test, with request handlers free to run in between.  *)
(*                                                                         *)
(* Not modelled: the template string and inputs_by_task (opaque payload,   *)
(* rules are created with inputs_by_task = None), JSON encoding, logging.  *)
(***************************************************************************)
EXTENDS Integers, Sequences, FiniteSets, TLC

\* ------------------------------------------------------------------------
\* Program constants
\* ------------------------------------------------------------------------
STATUS_UNAVAILABLE == 0
STATUS_AVAILABLE == 1
STATUS_ASSIGNED == 2
STATUS_COMPLETE == 3
STATUS_FAILED == 4

\* task_timeout=600 (RuleServer never passes another value)
TaskTimeout == 600
\* 'nRetries' is a uint8 field
Uint8Mod == 256
\* 'expiry' is an 'f4' field: between 2^30 and 2^31 seconds since the epoch
\* consecutive float32 values are 128 apart
F32Spacing == 128

\* RuleServer.MAX_ADVERTISEMENTS
MAX_ADVERTISEMENTS == 5 * 10 * 50 * 12
\* self._cached_advert_expiry = time.time() + 1
AdvertInterval == 1

\* ------------------------------------------------------------------------
\* Bounds of the model
\* ------------------------------------------------------------------------
\* largest max_tasks a rule is created with or grown to, in the specifications
\* that run the whole server against the clock
MaxTasks == 1
\* the same, in the specifications that leave the clock alone
MaxTasksWide == 2
\* the configured retry limit, config.get('ruleserver-retries', 3)
NRetries == 1
\* number of clock advances explored
MaxTicks == 3
\* longest list of task ids in one bid or hand-in
MaxIDs == 2
\* rules created through add_integer_id_rule in one run
MaxAdds == 1
\* nesting depth of on_completion descriptors
MaxChain == 1
\* nesting depth of on_completion descriptors, in the specification of
\* follow-on chains
MaxChainDeep == 2
\* rules created through add_integer_id_rule in one run, in the specification
\* of the sweep thread's progress
MaxAddsLive == 2
\* requests are explored while the completed / failed counters stay below
\* this and the assigned / available counters stay above its negative
MaxCount == 2

\* rules registered at the same time, in the specification of the
\* advertisement list
MaxRules == 2
\* seconds the clock advances one by one, in that specification
MaxSeconds == 2
\* largest advertisement cap the advertisement loop is run with
MaxCap == 3
\* request threads inside task_advertisements at the same time
NCallers == 2

\* wall clock (time.time()) when the server starts, in seconds since the
\* epoch: a reading inside the range where float32 has that spacing
StartTime == 2^30 + 2^29 + 64
\* the clock advances in jumps of this many seconds
TickLen == TaskTimeout + 100
\* a jump of the clock that passes every lease granted before it
LongTickLen == 2 * TickLen
\* rule_timeout values callers pass (seconds)
RuleTimeouts == {TickLen}
\* costs workers report in a bid
Costs == {1}
\* statuses workers put in a hand-in: the two documented ones
HandinStatuses == {STATUS_COMPLETE, STATUS_FAILED}
\* statuses a hand-in can carry at all (np.array(info['status'], 'uint8')):
\* the documented ones, a status code that is no hand-in result, and a value
\* that is no status code
AnyStatuses == HandinStatuses \cup {STATUS_AVAILABLE, STATUS_FAILED + 1}
\* caller-supplied rule identifiers
UserRuleIDs == {<<"user", 0>>}
\* ruleID=None
NoRule == <<"none", 0>>
\* an identifier no registered rule has (never added, or already removed)
UnknownID == <<"gone", 0>>

VARIABLES
    rules,      \* RuleServer._rules: ruleID -> IntegerIDRule state
    ruleOrder,  \* insertion order of the OrderedDict
    rule_n,     \* RuleServer._rule_n
    now,        \* time.time()
    sweepKeys,  \* _poll_rules: keys of the snapshot still to visit
    sweepPc,    \* _poll_rules: "sleep", "poll" or "check"; "dead" once it raised
    done,       \* history: per rule, the task ids handed in as Complete so far
    cached_advert,          \* RuleServer._cached_advert: list of adverts
    cached_advert_expiry,   \* RuleServer._cached_advert_expiry
    callers,    \* task_advertisements: per request thread, its position (pc),
                \* its local t and the value it returned (resp)
    rebuilt,    \* history: number, time and list of the last rebuild
    info_lock,  \* IntegerIDRule._info_lock of the rule: the thread holding it
    calls,      \* per thread, the call on the rule it is executing: its
                \* position (pc), its arguments and its local variables
    startRule,  \* history: the rule when the first of the calls in flight began
    reqs,       \* per request thread, the request it serves split at the
                \* look-up self._rules[ruleID]: its position (pc), the
                \* endpoint, its arguments and its outcome
    orphans,    \* rule objects popped from the registry that a request
                \* thread still holds a reference to
    held,       \* per lock, the thread that holds it
    lockers     \* per thread, the operation it runs as the list of its lock
                \* steps, its position in the list and the locks it holds

advertVars == <<cached_advert, cached_advert_expiry, callers, rebuilt>>

reqVars == <<reqs, orphans>>

orderVars == <<held, lockers>>

lockVars == <<info_lock, calls, startRule, reqVars, orderVars>>

vars == <<rules, ruleOrder, rule_n, now, sweepKeys, sweepPc, done, advertVars, lockVars>>

\* ------------------------------------------------------------------------
\* Helpers
\* ------------------------------------------------------------------------
Range(s) == {s[i] : i \in 1..Len(s)}

\* float32(x) for x = 0 or 2^30 <= x < 2^31: nearest multiple of the spacing,
\* ties to the even multiple
F32(x) ==
    LET lo == (x \div F32Spacing) * F32Spacing
        r  == x - lo
    IN  IF 2 * r < F32Spacing THEN lo
        ELSE IF 2 * r > F32Spacing THEN lo + F32Spacing
        ELSE IF (lo \div F32Spacing) % 2 = 0 THEN lo
        ELSE lo + F32Spacing

\* numpy index: negative ids count from the end of the array
Idx(id, size) == IF id < 0 THEN id + size ELSE id
ValidIdx(id, size) == id >= -size /\ id < size

Size(r) == Cardinality(DOMAIN r.task_info)

CountStatus(ti, s) == Cardinality({k \in DOMAIN ti : ti[k].status = s})

RECURSIVE SumCost(_, _)
SumCost(ti, S) ==
    IF S = {} THEN 0
    ELSE LET k == CHOOSE x \in S : TRUE
         IN  ti[k].cost + SumCost(ti, S \ {k})

RECURSIVE Gcd(_, _)
Gcd(a, b) == IF b = 0 THEN a ELSE Gcd(b, a % b)

\* np.zeros(n, TASK_INFO_DTYPE)
ZeroTask == [status |-> 0, nRetries |-> 0, expiry |-> 0, cost |-> 0]

\* subsequence of ids at the positions in P, in order
RECURSIVE Pick(_, _, _)
Pick(ids, P, i) ==
    IF i > Len(ids) THEN <<>>
    ELSE IF i \in P THEN <<ids[i]>> \o Pick(ids, P, i + 1)
    ELSE Pick(ids, P, i + 1)

\* last position of ids that addresses array slot k
LastPos(ids, P, k, size) ==
    CHOOSE i \in P : Idx(ids[i], size) = k
                     /\ \A j \in P : Idx(ids[j], size) = k => j <= i

\* ------------------------------------------------------------------------
\* IntegerIDRule
\* ------------------------------------------------------------------------
\* IntegerIDRule.__init__
NewRule(max_task_ID, rule_timeout, on_completion, datasource_complete, t) ==
    [task_info |-> [k \in 0..(max_task_ID - 1) |-> ZeroTask],
     rule_timeout |-> rule_timeout,
     cached_advert |-> {},
     active |-> TRUE,
     nTotal |-> 0, nAssigned |-> 0, nAvailable |-> 0,
     nCompleted |-> 0, nFailed |-> 0,
     n_max |-> max_task_ID,
     datasource_complete |-> datasource_complete,
     on_completion |-> on_completion,
     avCost |-> [num |-> 0, den |-> 1],
     expiry |-> t + rule_timeout]

\* IntegerIDRule._update_nums
update_nums(r) ==
    [r EXCEPT !.nAvailable = CountStatus(r.task_info, STATUS_AVAILABLE),
              !.nAssigned = CountStatus(r.task_info, STATUS_ASSIGNED)]

\* IntegerIDRule._update_cost: mean cost of the tasks with status > Available,
\* kept as a reduced fraction; the mean of nothing (nan) becomes 0
update_cost(r) ==
    LET S == {k \in DOMAIN r.task_info : r.task_info[k].status > STATUS_AVAILABLE}
        n == Cardinality(S)
        c == SumCost(r.task_info, S)
        g == Gcd(c, n)
    IN  [r EXCEPT !.avCost = IF n = 0 THEN [num |-> 0, den |-> 1]
                             ELSE [num |-> c \div g, den |-> n \div g]]

\* IntegerIDRule.mark_datasource_complete; the counters are refreshed before
\* the test, so they stay refreshed when the call raises
mark_datasource_complete(r, n_max) ==
    LET u == update_nums(r)
        ext == [k \in 0..(n_max - 1) |->
                   IF k \in DOMAIN u.task_info THEN u.task_info[k] ELSE ZeroTask]
    IN  IF u.nAssigned > n_max
        THEN [rule |-> u, err |-> "ValueError"]
        ELSE [rule |-> [u EXCEPT !.task_info = IF n_max > Size(u) THEN ext ELSE @,
                                 !.n_max = n_max,
                                 !.datasource_complete = TRUE],
              err |-> ""]

\* the range test of make_range_available
RangeInvalid(r, start, end) ==
    start < 0 \/ start > Size(r) \/ end < 0 \/ end > Size(r)

\* a release that leaves the cached advertisement in place
make_range_available_KeepCache(r, start, end, t) ==
    IF RangeInvalid(r, start, end)
    THEN [rule |-> r, err |-> "RuntimeError"]
    ELSE LET ti == [k \in DOMAIN r.task_info |->
                       IF k >= start /\ k < end
                       THEN [r.task_info[k] EXCEPT !.status = STATUS_AVAILABLE]
                       ELSE r.task_info[k]]
             r1 == [r EXCEPT !.task_info = ti,
                             !.nTotal = Cardinality({k \in DOMAIN ti : ti[k].status > 0})]
         IN  [rule |-> [update_nums(r1) EXCEPT !.expiry = t + r.rule_timeout],
              err |-> ""]

\* IntegerIDRule.make_range_available
make_range_available(r, start, end, t) ==
    IF RangeInvalid(r, start, end)
    THEN [rule |-> r, err |-> "RuntimeError"]
    ELSE LET ti == [k \in DOMAIN r.task_info |->
                       IF k >= start /\ k < end
                       THEN [r.task_info[k] EXCEPT !.status = STATUS_AVAILABLE]
                       ELSE r.task_info[k]]
             r1 == [r EXCEPT !.task_info = ti,
                             !.nTotal = Cardinality({k \in DOMAIN ti : ti[k].status > 0})]
         IN  [rule |-> [update_nums(r1) EXCEPT !.expiry = t + r.rule_timeout,
                                               !.cached_advert = {}],
              err |-> ""]

\* a bid mask that also accepts tasks another bidder holds
BidMask_NoCheck(ti, ids) ==
    {i \in 1..Len(ids) :
        ti[Idx(ids[i], Cardinality(DOMAIN ti))].status \in {STATUS_AVAILABLE, STATUS_ASSIGNED}}

\* a bid mask that grants nothing while any task of the rule is leased
BidMask_OneLease(ti, ids) ==
    IF \E k \in DOMAIN ti : ti[k].status = STATUS_ASSIGNED THEN {}
    ELSE {i \in 1..Len(ids) :
             ti[Idx(ids[i], Cardinality(DOMAIN ti))].status = STATUS_AVAILABLE}

\* positions of a bid whose task is Available
BidMask(ti, ids) ==
    {i \in 1..Len(ids) : ti[Idx(ids[i], Cardinality(DOMAIN ti))].status = STATUS_AVAILABLE}

\* a bid that does not look at the active flag
bid_IgnoreActive(r, ids, costs, t) ==
    IF \E i \in 1..Len(ids) : ~ValidIdx(ids[i], Size(r))
    THEN [rule |-> r, ids |-> <<>>, err |-> "IndexError"]
    ELSE LET size == Size(r)
             P == BidMask(r.task_info, ids)
             won == {Idx(ids[i], size) : i \in P}
             ti == [k \in DOMAIN r.task_info |->
                       IF k \in won
                       THEN [r.task_info[k] EXCEPT
                                !.status = STATUS_ASSIGNED,
                                !.cost = costs[LastPos(ids, P, k, size)],
                                !.expiry = F32(t + TaskTimeout)]
                       ELSE r.task_info[k]]
             nTasks == Cardinality(P)
             r1 == [r EXCEPT !.task_info = ti,
                             !.nAvailable = @ - nTasks,
                             !.nAssigned = @ + nTasks]
         IN  [rule |-> [update_cost(r1) EXCEPT !.expiry = t + r.rule_timeout,
                                               !.cached_advert = {}],
              ids |-> Pick(ids, P, 1),
              err |-> ""]

\* a bid that records the reported cost for every task it names
bid_CostAll(r, ids, costs, t) ==
    IF ~r.active THEN [rule |-> r, ids |-> <<>>, err |-> ""]
    ELSE IF \E i \in 1..Len(ids) : ~ValidIdx(ids[i], Size(r))
    THEN [rule |-> r, ids |-> <<>>, err |-> "IndexError"]
    ELSE LET size == Size(r)
             P == BidMask(r.task_info, ids)
             All == 1..Len(ids)
             won == {Idx(ids[i], size) : i \in P}
             named == {Idx(ids[i], size) : i \in All}
             ti == [k \in DOMAIN r.task_info |->
                       IF k \in won
                       THEN [r.task_info[k] EXCEPT
                                !.status = STATUS_ASSIGNED,
                                !.cost = costs[LastPos(ids, P, k, size)],
                                !.expiry = F32(t + TaskTimeout)]
                       ELSE IF k \in named
                       THEN [r.task_info[k] EXCEPT
                                !.cost = costs[LastPos(ids, All, k, size)] + 1]
                       ELSE r.task_info[k]]
             nTasks == Cardinality(P)
             r1 == [r EXCEPT !.task_info = ti,
                             !.nAvailable = @ - nTasks,
                             !.nAssigned = @ + nTasks]
         IN  [rule |-> [update_cost(r1) EXCEPT !.expiry = t + r.rule_timeout,
                                               !.cached_advert = {}],
              ids |-> Pick(ids, P, 1),
              err |-> ""]

\* IntegerIDRule.bid
bid(r, ids, costs, t) ==
    IF ~r.active THEN [rule |-> r, ids |-> <<>>, err |-> ""]
    ELSE IF \E i \in 1..Len(ids) : ~ValidIdx(ids[i], Size(r))
    THEN [rule |-> r, ids |-> <<>>, err |-> "IndexError"]
    ELSE LET size == Size(r)
             P == BidMask(r.task_info, ids)
             won == {Idx(ids[i], size) : i \in P}
             ti == [k \in DOMAIN r.task_info |->
                       IF k \in won
                       THEN [r.task_info[k] EXCEPT
                                !.status = STATUS_ASSIGNED,
                                !.cost = costs[LastPos(ids, P, k, size)],
                                !.expiry = F32(t + TaskTimeout)]
                       ELSE r.task_info[k]]
             nTasks == Cardinality(P)
             r1 == [r EXCEPT !.task_info = ti,
                             !.nAvailable = @ - nTasks,
                             !.nAssigned = @ + nTasks]
         IN  [rule |-> [update_cost(r1) EXCEPT !.expiry = t + r.rule_timeout,
                                               !.cached_advert = {}],
              ids |-> Pick(ids, P, 1),
              err |-> ""]

\* a hand-in that counts one completion per call instead of one per entry
mark_complete_CountCalls(r, ids, status, t) ==
    IF \E i \in 1..Len(ids) : ~ValidIdx(ids[i], Size(r))
    THEN [rule |-> r, err |-> "IndexError"]
    ELSE LET size == Size(r)
             P == 1..Len(ids)
             named == {Idx(ids[i], size) : i \in P}
             ti == [k \in DOMAIN r.task_info |->
                       IF k \in named
                       THEN [r.task_info[k] EXCEPT
                                !.status = status[LastPos(ids, P, k, size)]]
                       ELSE r.task_info[k]]
         IN  [rule |-> [r EXCEPT
                           !.task_info = ti,
                           !.nCompleted = @ + (IF \E i \in P : status[i] = STATUS_COMPLETE
                                               THEN 1 ELSE 0),
                           !.nFailed = @ + Cardinality({i \in P : status[i] = STATUS_FAILED}),
                           !.nAssigned = @ - Len(ids),
                           !.expiry = t + r.rule_timeout],
              err |-> ""]

\* IntegerIDRule.mark_complete
mark_complete(r, ids, status, t) ==
    IF \E i \in 1..Len(ids) : ~ValidIdx(ids[i], Size(r))
    THEN [rule |-> r, err |-> "IndexError"]
    ELSE LET size == Size(r)
             P == 1..Len(ids)
             named == {Idx(ids[i], size) : i \in P}
             ti == [k \in DOMAIN r.task_info |->
                       IF k \in named
                       THEN [r.task_info[k] EXCEPT
                                !.status = status[LastPos(ids, P, k, size)]]
                       ELSE r.task_info[k]]
         IN  [rule |-> [r EXCEPT
                           !.task_info = ti,
                           !.nCompleted = @ + Cardinality({i \in P : status[i] = STATUS_COMPLETE}),
                           !.nFailed = @ + Cardinality({i \in P : status[i] = STATUS_FAILED}),
                           !.nAssigned = @ - Len(ids),
                           !.expiry = t + r.rule_timeout],
              err |-> ""]

\* the task ids an advertisement lists
AvailableTasks(r) ==
    {k \in DOMAIN r.task_info : r.task_info[k].status = STATUS_AVAILABLE}

\* IntegerIDRule.advert (a property with a cache): the empty set stands for
\* None, which is also what the code caches when no task is available
advert(r) ==
    IF ~r.active THEN [rule |-> r, adv |-> {}]
    ELSE LET c == IF r.cached_advert = {} THEN AvailableTasks(r) ELSE r.cached_advert
         IN  [rule |-> [r EXCEPT !.cached_advert = c], adv |-> c]

\* IntegerIDRule.expired
expired(r, t) == r.nAvailable = 0 /\ r.nAssigned = 0 /\ t > r.expiry

\* a finished test that forgets the datasource flag
finished_IgnoreFlag(r) == r.nCompleted >= r.n_max

\* IntegerIDRule.finished
finished(r) == r.datasource_complete /\ r.nCompleted >= r.n_max

\* an inactivate that also takes back the leases
inactivate_Revoke(r) ==
    [r EXCEPT !.active = FALSE,
              !.task_info = [k \in DOMAIN r.task_info |->
                                IF r.task_info[k].status = STATUS_ASSIGNED
                                THEN [r.task_info[k] EXCEPT !.status = STATUS_AVAILABLE]
                                ELSE r.task_info[k]]]

\* IntegerIDRule.inactivate
inactivate(r) == [r EXCEPT !.active = FALSE]

\* tasks poll_timeouts finds timed out: the float32 expiry column is compared
\* with the clock in float32
TimedOut(r, t) ==
    {k \in DOMAIN r.task_info :
        r.task_info[k].status = STATUS_ASSIGNED /\ r.task_info[k].expiry < F32(t)}

\* IntegerIDRule.poll_timeouts
poll_timeouts(r, t) ==
    LET timed_out == TimedOut(r, t)
        nTimedOut == Cardinality(timed_out)
        ti1 == [k \in DOMAIN r.task_info |->
                   IF k \in timed_out
                   THEN [r.task_info[k] EXCEPT !.status = STATUS_AVAILABLE,
                                                !.nRetries = (@ + 1) % Uint8Mod]
                   ELSE r.task_info[k]]
        retry_failed == {k \in DOMAIN ti1 : ti1[k].nRetries > NRetries}
        ti2 == [k \in DOMAIN ti1 |->
                   IF k \in retry_failed
                   THEN [ti1[k] EXCEPT !.status = STATUS_FAILED]
                   ELSE ti1[k]]
    IN  IF nTimedOut > 0
        THEN [r EXCEPT !.task_info = ti2,
                       !.nAssigned = @ - nTimedOut,
                       !.nAvailable = @ + nTimedOut - Cardinality(retry_failed),
                       !.cached_advert = {}]
        ELSE [r EXCEPT !.cached_advert = {}]

\* ------------------------------------------------------------------------
\* RuleServer
\* ------------------------------------------------------------------------
\* '%06d-%s' % (self._rule_n, uuid.uuid4().hex): never equal to an id made before
AutoID(n) == <<"auto", n>>

\* the ids a request can name: the registered ones and one that is not
AddressableIDs == (DOMAIN rules) \cup {UnknownID}

\* on_completion descriptors: the list of stages still to run, outermost
\* first; template says whether the stage has a 'template' entry
Stages == [max_tasks : 1..MaxTasks, rule_timeout : RuleTimeouts, template : {TRUE}]
Descriptors == UNION {[1..n -> Stages] : n \in 0..MaxChain}

\* lists of task ids a request can carry for a rule of the given size: lists
\* of ids of the array, and the first id past its end
IDLists(size) == UNION {[1..n -> 0..(size - 1)] : n \in 1..MaxIDs} \cup {<<size>>}

\* self._rules[ruleID] = rule on an OrderedDict: a new key goes to the end
Register(order, q) == IF q \in Range(order) THEN order ELSE Append(order, q)

\* self._rules.pop(qn)
Unregister(order, q) == SelectSeq(order, LAMBDA x : x # q)

Without(f, q) == [k \in (DOMAIN f) \ {q} |-> f[k]]

With(f, q, v) == [k \in (DOMAIN f) \cup {q} |-> IF k = q THEN v ELSE f[k]]

\* the threads that serve task_advertisements requests
Callers == 1..NCallers

\* the threads that call into a rule: the sweep thread (rulePollThread) and
\* the request threads
SweepThread == 0
Threads == {SweepThread} \cup Callers

\* the value of info_lock when no thread holds the lock
NoThread == 0 - 1

\* a thread that is in no call on the rule
IdleCall == [pc |-> "idle", op |-> "none", ids |-> <<>>, st |-> <<>>, P |-> {}, t |-> 0]

\* a thread outside task_advertisements
IdleCaller == [pc |-> "idle", t |-> 0, resp |-> <<>>]

\* a request thread that serves no request
IdleReq == [pc |-> "idle", op |-> "none", q |-> NoRule, args |-> <<>>,
            out |-> "none", removed |-> FALSE, ids |-> <<>>]

\* rules whose locks are told apart
LockRules == 1..MaxRules

\* the locks: RuleServer._info_lock, _rule_lock and _advert_lock, and
\* IntegerIDRule._info_lock and _advert_lock of each rule
ServerLock(x) == <<"server", 0, x>>

RuleLock(r, x) == <<"rule", r, x>>

Locks ==
    {ServerLock("info"), ServerLock("rule"), ServerLock("advert")}
    \cup {RuleLock(r, "info") : r \in LockRules}
    \cup {RuleLock(r, "advert") : r \in LockRules}

\* a thread that runs no operation
IdleLocker == [op |-> "none", v |-> "none", plan |-> <<>>, i |-> 1, stack |-> <<>>]

\* RuleServer.__init__ (_cached_advert is None until the first request, which
\* always rebuilds it; no request returns it before)
Init ==
    /\ rules = <<>>
    /\ ruleOrder = <<>>
    /\ rule_n = 0
    /\ now = StartTime
    /\ sweepKeys = <<>>
    /\ sweepPc = "sleep"
    /\ done = <<>>
    /\ cached_advert = <<>>
    /\ cached_advert_expiry = 0
    /\ callers = [c \in Callers |-> IdleCaller]
    /\ rebuilt = [n |-> 0, time |-> 0, adverts |-> <<>>]
    /\ info_lock = NoThread
    /\ calls = [c \in Threads |-> IdleCall]
    /\ startRule = <<>>
    /\ reqs = [c \in Callers |-> IdleReq]
    /\ orphans = <<>>
    /\ held = [l \in Locks |-> NoThread]
    /\ lockers = [c \in Threads |-> IdleLocker]

\* an add that registers the first follow-on together with the rule
AddResult_Eager(rs, order, n, given, max_tasks, release, timeout, on_completion, t) ==
    LET q == IF given = NoRule THEN AutoID(n) ELSE given
        f == AutoID(n + 1)
        r0 == NewRule(max_tasks, timeout, on_completion, TRUE, t)
        rel == IF release = <<>> THEN [rule |-> r0, err |-> ""]
               ELSE make_range_available(r0, release[1], release[2], t)
        next == NewRule(on_completion[1].max_tasks, on_completion[1].rule_timeout,
                        Tail(on_completion), TRUE, t)
    IN  IF rel.err # ""
        THEN [rules |-> rs, order |-> order, rule_n |-> n, ruleID |-> q, err |-> rel.err]
        ELSE IF on_completion = <<>>
        THEN [rules |-> With(rs, q, rel.rule), order |-> Register(order, q),
              rule_n |-> n + 1, ruleID |-> q, err |-> ""]
        ELSE [rules |-> With(With(rs, q, rel.rule), f, next),
              order |-> Register(Register(order, q), f),
              rule_n |-> n + 2, ruleID |-> q, err |-> ""]

\* RuleServer.add_integer_id_rule as a function of the registry (rs, its
\* key order, _rule_n); release = <<>> stands for release_start=None.  A
\* release that raises leaves the rule unregistered.  An existing entry with
\* the same ruleID is overwritten.
AddResult(rs, order, n, given, max_tasks, release, timeout, on_completion, t) ==
    LET q == IF given = NoRule THEN AutoID(n) ELSE given
        r0 == NewRule(max_tasks, timeout, on_completion, TRUE, t)
        rel == IF release = <<>> THEN [rule |-> r0, err |-> ""]
               ELSE make_range_available(r0, release[1], release[2], t)
    IN  IF rel.err # ""
        THEN [rules |-> rs, order |-> order, rule_n |-> n, ruleID |-> q, err |-> rel.err]
        ELSE [rules |-> With(rs, q, rel.rule), order |-> Register(order, q),
              rule_n |-> n + 1, ruleID |-> q, err |-> ""]

\* RuleServer.add_integer_id_rule.  The model follows one rule and its
\* follow-ons at a time.
add_integer_id_rule(given, max_tasks, release, timeout, on_completion) ==
    /\ rule_n < MaxAdds
    /\ ruleOrder = <<>>
    /\ LET res == AddResult(rules, ruleOrder, rule_n, given, max_tasks, release,
                            timeout, on_completion, now)
       IN  /\ rules' = res.rules
           /\ ruleOrder' = res.order
           /\ rule_n' = res.rule_n
           /\ done' = IF res.err # "" THEN done ELSE With(done, res.ruleID, {})
    /\ UNCHANGED <<now, sweepKeys, sweepPc, advertVars, lockVars>>

\* RuleServer.release_rule_tasks as a function of the registry:
\* self._rules[ruleID] raises KeyError for an unknown id
ReleaseResult(rs, q, start, end, t) ==
    IF q \notin DOMAIN rs THEN [rules |-> rs, err |-> "KeyError"]
    ELSE LET res == make_range_available(rs[q], start, end, t)
         IN  [rules |-> [rs EXCEPT ![q] = res.rule], err |-> res.err]

\* RuleServer.release_rule_tasks
release_rule_tasks(q, start, end) ==
    /\ rules' = ReleaseResult(rules, q, start, end, now).rules
    /\ UNCHANGED <<ruleOrder, rule_n, now, sweepKeys, sweepPc, done, advertVars, lockVars>>

\* RuleServer.bid_on_tasks as a function of the registry, from the i-th bid
\* of the list on: each bid is [ruleID, taskIDs, costs]; acc is
\* succesfull_bids.  An exception (KeyError from self._rules[...], IndexError
\* from rule.bid) leaves the loop, so no response is returned, while the bids
\* already made stay made.
RECURSIVE BidsFrom(_, _, _, _, _)
BidsFrom(rs, bids, i, acc, t) ==
    IF i > Len(bids) THEN [rules |-> rs, resp |-> acc, err |-> ""]
    ELSE IF bids[i].ruleID \notin DOMAIN rs
    THEN [rules |-> rs, resp |-> <<>>, err |-> "KeyError"]
    ELSE LET q == bids[i].ruleID
             res == bid(rs[q], bids[i].taskIDs, bids[i].costs, t)
         IN  IF res.err # ""
             THEN [rules |-> rs, resp |-> <<>>, err |-> res.err]
             ELSE BidsFrom([rs EXCEPT ![q] = res.rule], bids, i + 1,
                           Append(acc, [ruleID |-> q, taskIDs |-> res.ids]), t)

BidsResult(rs, bids, t) == BidsFrom(rs, bids, 1, <<>>, t)

\* RuleServer.bid_on_tasks with a list of one bid
bid_on_tasks(q, ids, costs) ==
    /\ LET res == BidsResult(rules, <<[ruleID |-> q, taskIDs |-> ids, costs |-> costs]>>, now)
       IN  /\ \A x \in DOMAIN res.rules : res.rules[x].nAvailable >= -MaxCount
           /\ rules' = res.rules
    /\ UNCHANGED <<ruleOrder, rule_n, now, sweepKeys, sweepPc, done, advertVars, lockVars>>

\* the ids a hand-in reports as Complete
HandedComplete(r, ids, status) ==
    {Idx(ids[i], Size(r)) : i \in {j \in 1..Len(ids) : status[j] = STATUS_COMPLETE}}

\* RuleServer.handin as a function of the registry, from the i-th entry of
\* the list on: each entry is [ruleID, taskIDs, status].  KeyError is caught
\* outside the loop and answered with ok = False; any other exception
\* (IndexError from mark_complete) propagates.
RECURSIVE HandinFrom(_, _, _, _)
HandinFrom(rs, entries, i, t) ==
    IF i > Len(entries) THEN [rules |-> rs, ok |-> TRUE, err |-> ""]
    ELSE IF entries[i].ruleID \notin DOMAIN rs
    THEN [rules |-> rs, ok |-> FALSE, err |-> ""]
    ELSE LET q == entries[i].ruleID
             res == mark_complete(rs[q], entries[i].taskIDs, entries[i].status, t)
         IN  IF res.err # ""
             THEN [rules |-> rs, ok |-> FALSE, err |-> res.err]
             ELSE HandinFrom([rs EXCEPT ![q] = res.rule], entries, i + 1, t)

HandinResult(rs, entries, t) == HandinFrom(rs, entries, 1, t)

\* RuleServer.handin with a list of one entry
handin(q, ids, status) ==
    /\ LET res == HandinResult(rules, <<[ruleID |-> q, taskIDs |-> ids, status |-> status]>>, now)
       IN  /\ \A x \in DOMAIN res.rules :
                  /\ res.rules[x].nCompleted + res.rules[x].nFailed <= MaxCount
                  /\ res.rules[x].nAssigned >= -MaxCount
           /\ rules' = res.rules
           /\ done' = IF res.ok
                      THEN [done EXCEPT ![q] = @ \cup HandedComplete(rules[q], ids, status)]
                      ELSE done
    /\ UNCHANGED <<ruleOrder, rule_n, now, sweepKeys, sweepPc, advertVars, lockVars>>

\* RuleServer.mark_datasource_complete as a function of the registry
MdsResult(rs, q, n_max) ==
    IF q \notin DOMAIN rs THEN [rules |-> rs, err |-> "KeyError"]
    ELSE LET res == mark_datasource_complete(rs[q], n_max)
         IN  [rules |-> [rs EXCEPT ![q] = res.rule], err |-> res.err]

\* RuleServer.mark_datasource_complete
server_mark_datasource_complete(q, n_max) ==
    /\ rules' = MdsResult(rules, q, n_max).rules
    /\ UNCHANGED <<ruleOrder, rule_n, now, sweepKeys, sweepPc, done, advertVars, lockVars>>

\* an inactivate_rule that answers ok for an id it does not know
InactivateResult_Silent(rs, q) ==
    IF q \notin DOMAIN rs THEN [rules |-> rs, err |-> ""]
    ELSE [rules |-> [rs EXCEPT ![q] = inactivate(rs[q])], err |-> ""]

\* RuleServer.inactivate_rule as a function of the registry
InactivateResult(rs, q) ==
    IF q \notin DOMAIN rs THEN [rules |-> rs, err |-> "KeyError"]
    ELSE [rules |-> [rs EXCEPT ![q] = inactivate(rs[q])], err |-> ""]

\* RuleServer.inactivate_rule
inactivate_rule(q) ==
    /\ rules' = InactivateResult(rules, q).rules
    /\ UNCHANGED <<ruleOrder, rule_n, now, sweepKeys, sweepPc, done, advertVars, lockVars>>

\* reading rule.advert, as task_advertisements does for each rule it visits
read_advert(q) ==
    /\ q \in DOMAIN rules
    /\ rules' = [rules EXCEPT ![q] = advert(rules[q]).rule]
    /\ UNCHANGED <<ruleOrder, rule_n, now, sweepKeys, sweepPc, done, advertVars, lockVars>>

\* an advertisement loop that visits every rule, whatever the count
RECURSIVE AdvertsFrom_NoCap(_, _, _, _, _, _)
AdvertsFrom_NoCap(rs, order, i, acc, nTasks, cap) ==
    IF i > Len(order) THEN [rules |-> rs, adverts |-> acc]
    ELSE LET q == order[i]
             a == advert(rs[q])
             rs1 == [rs EXCEPT ![q] = a.rule]
         IN  IF a.adv = {}
             THEN AdvertsFrom_NoCap(rs1, order, i + 1, acc, nTasks, cap)
             ELSE AdvertsFrom_NoCap(rs1, order, i + 1,
                                    Append(acc, [ruleID |-> q, availableTaskIDs |-> a.adv]),
                                    nTasks + Cardinality(a.adv), cap)

\* task_advertisements: the loop over list(self._rules.values()) from the
\* i-th rule on, acc being adverts; reading rule.advert fills that rule's own
\* cache.  The loop is written for any cap; the server runs it with
\* MAX_ADVERTISEMENTS.
RECURSIVE AdvertsFrom(_, _, _, _, _, _)
AdvertsFrom(rs, order, i, acc, nTasks, cap) ==
    IF i > Len(order) \/ nTasks >= cap THEN [rules |-> rs, adverts |-> acc]
    ELSE LET q == order[i]
             a == advert(rs[q])
             rs1 == [rs EXCEPT ![q] = a.rule]
         IN  IF a.adv = {}
             THEN AdvertsFrom(rs1, order, i + 1, acc, nTasks, cap)
             ELSE AdvertsFrom(rs1, order, i + 1,
                              Append(acc, [ruleID |-> q, availableTaskIDs |-> a.adv]),
                              nTasks + Cardinality(a.adv), cap)

\* a task_advertisements that rebuilds the list on every call
TaskAdvertsResult_NoCache(rs, order, cache, expiry, t, tEnd) ==
    LET b == AdvertsFrom(rs, order, 1, <<>>, 0, MAX_ADVERTISEMENTS)
    IN  [rules |-> b.rules, cache |-> b.adverts, expiry |-> tEnd + AdvertInterval,
         rebuild |-> TRUE]

\* RuleServer.task_advertisements, the block under self._advert_lock, as a
\* function of the registry and the cache: t is the time read on entry, tEnd
\* the time read after the loop
TaskAdvertsResult(rs, order, cache, expiry, t, tEnd) ==
    IF t > expiry
    THEN LET b == AdvertsFrom(rs, order, 1, <<>>, 0, MAX_ADVERTISEMENTS)
         IN  [rules |-> b.rules, cache |-> b.adverts, expiry |-> tEnd + AdvertInterval,
              rebuild |-> TRUE]
    ELSE [rules |-> rs, cache |-> cache, expiry |-> expiry, rebuild |-> FALSE]

\* task_advertisements: with self._advert_lock: t = time.time()
adverts_enter(c) ==
    /\ callers[c].pc = "idle"
    /\ \A d \in Callers : callers[d].pc # "locked"
    /\ callers' = [callers EXCEPT ![c] = [pc |-> "locked", t |-> now, resp |-> <<>>]]
    /\ UNCHANGED <<rules, ruleOrder, rule_n, now, sweepKeys, sweepPc, done,
                   cached_advert, cached_advert_expiry, rebuilt, lockVars>>

\* task_advertisements: the test of the expiry, the rebuild, and the release
\* of the lock
adverts_build(c) ==
    /\ callers[c].pc = "locked"
    /\ LET res == TaskAdvertsResult(rules, ruleOrder, cached_advert, cached_advert_expiry,
                                    callers[c].t, now)
       IN  /\ rules' = res.rules
           /\ cached_advert' = res.cache
           /\ cached_advert_expiry' = res.expiry
           /\ rebuilt' = IF res.rebuild
                         THEN [n |-> rebuilt.n + 1, time |-> now, adverts |-> res.cache]
                         ELSE rebuilt
    /\ callers' = [callers EXCEPT ![c].pc = "unlocked"]
    /\ UNCHANGED <<ruleOrder, rule_n, now, sweepKeys, sweepPc, done, lockVars>>

\* task_advertisements: return self._cached_advert, outside the lock
adverts_return(c) ==
    /\ callers[c].pc = "unlocked"
    /\ callers' = [callers EXCEPT ![c] = [pc |-> "idle", t |-> 0, resp |-> cached_advert]]
    /\ UNCHANGED <<rules, ruleOrder, rule_n, now, sweepKeys, sweepPc, done,
                   cached_advert, cached_advert_expiry, rebuilt, lockVars>>

\* RuleServer.add_integer_id_rule without a ruleID, while other rules are
\* registered
add_rule(max_tasks, release, timeout) ==
    /\ Len(ruleOrder) < MaxRules
    /\ LET res == AddResult(rules, ruleOrder, rule_n, NoRule, max_tasks, release,
                            timeout, <<>>, now)
       IN  /\ rules' = res.rules
           /\ ruleOrder' = res.order
           /\ rule_n' = res.rule_n
           /\ done' = IF res.err # "" THEN done ELSE With(done, res.ruleID, {})
    /\ UNCHANGED <<now, sweepKeys, sweepPc, advertVars, lockVars>>

\* the wall clock moves on by a second
TickSecond ==
    /\ now < StartTime + MaxSeconds
    /\ now' = now + 1
    /\ UNCHANGED <<rules, ruleOrder, rule_n, sweepKeys, sweepPc, done,
                   advertVars, lockVars>>

\* _poll_rules: self._rules[qn].poll_timeouts(), for the next key of the
\* snapshot list(self._rules.keys()), which is taken when a pass starts
sweep_poll ==
    /\ sweepPc \in {"sleep", "poll"}
    /\ LET keys == IF sweepPc = "sleep" THEN ruleOrder ELSE sweepKeys
       IN  /\ keys # <<>>
           /\ sweepKeys' = keys
           /\ rules' = [rules EXCEPT ![Head(keys)] = poll_timeouts(rules[Head(keys)], now)]
    /\ sweepPc' = "check"
    /\ UNCHANGED <<ruleOrder, rule_n, now, done, advertVars, lockVars>>

\* a follow-on rule registered without releasing its tasks
FollowOn_NoRelease(d, t) ==
    NewRule(d[1].max_tasks, d[1].rule_timeout, Tail(d), TRUE, t)

\* the rule _poll_rules builds from an on_completion descriptor
FollowOn(d, t) ==
    make_range_available(
        NewRule(d[1].max_tasks, d[1].rule_timeout, Tail(d), TRUE, t),
        0, d[1].max_tasks, t).rule

\* a follow-on descriptor _poll_rules cannot build a rule from:
\* follow_on['template'] raises KeyError when the entry is missing, and
\* np.zeros(max_task_ID) raises ValueError for a negative size
Malformed(d) == ~d[1].template \/ d[1].max_tasks < 0

\* _poll_rules: the finished / expired test for the rule just polled.  The
\* loop has no exception handler: a descriptor that raises ends the thread,
\* after the finished rule was popped
SweepCheck ==
    /\ sweepPc = "check"
    /\ LET q == Head(sweepKeys)
           r == rules[q]
           f == AutoID(rule_n)
       IN  IF finished(r)
           THEN IF r.on_completion # <<>> /\ ~Malformed(r.on_completion)
                THEN /\ rules' = With(Without(rules, q), f, FollowOn(r.on_completion, now))
                     /\ ruleOrder' = Register(Unregister(ruleOrder, q), f)
                     /\ done' = With(Without(done, q), f, {})
                     /\ rule_n' = rule_n + 1
                ELSE /\ rules' = Without(rules, q)
                     /\ ruleOrder' = Unregister(ruleOrder, q)
                     /\ done' = Without(done, q)
                     /\ rule_n' = rule_n
           ELSE IF expired(r, now)
           THEN /\ rules' = Without(rules, q)
                /\ ruleOrder' = Unregister(ruleOrder, q)
                /\ done' = Without(done, q)
                /\ rule_n' = rule_n
           ELSE UNCHANGED <<rules, ruleOrder, rule_n, done>>
    /\ sweepKeys' = Tail(sweepKeys)
    /\ sweepPc' = LET r == rules[Head(sweepKeys)]
                  IN  IF finished(r) /\ r.on_completion # <<>> /\ Malformed(r.on_completion)
                      THEN "dead"
                      ELSE IF Tail(sweepKeys) = <<>> THEN "sleep" ELSE "poll"

\* _poll_rules: the test of a rule no request thread is looking at
sweep_check == SweepCheck /\ UNCHANGED <<now, advertVars, lockVars>>

\* the wall clock moves on
Tick ==
    /\ now < StartTime + MaxTicks * TickLen
    /\ now' = now + TickLen
    /\ UNCHANGED <<rules, ruleOrder, rule_n, sweepKeys, sweepPc, done, advertVars, lockVars>>

\* the wall clock moves on by two steps at once, past every lease granted
\* so far
TickLong ==
    /\ now < StartTime + MaxTicks * LongTickLen
    /\ now' = now + LongTickLen
    /\ UNCHANGED <<rules, ruleOrder, rule_n, sweepKeys, sweepPc, done, advertVars, lockVars>>

\* ------------------------------------------------------------------------
\* Calls on one rule, statement by statement: the block each call runs under
\* self._info_lock is split into the read of the array, the write of the
\* array and the update of the counters
\* ------------------------------------------------------------------------
\* a lock that any thread can enter at any time
LockFree_Always(holder) == TRUE

\* `with self._info_lock:` can be entered
LockFree(holder) == holder = NoThread

\* the rule the calls are made on
TheRule == ruleOrder[1]

\* no thread has made a call on the rule yet
Quiet == \A c \in Threads : calls[c].pc = "idle"

\* no thread is inside a call on the rule
NoneInFlight == \A c \in Threads : calls[c].pc \in {"idle", "done"}

\* thread c has begun a call and not yet returned from it
InFlight(c) == calls[c].pc \notin {"idle", "done"}

\* the costs a bid reports
UnitCosts(ids) == [i \in 1..Len(ids) |-> 1]

\* the statement of a call that reads the array into a local variable: the
\* mask of bid (positions of its id list), timed_out of poll_timeouts (ids)
ReadStep(r, call, t) ==
    IF call.op = "bid" THEN BidMask(r.task_info, call.ids)
    ELSE IF call.op = "poll_timeouts" THEN TimedOut(r, t)
    ELSE {}

\* the statements of a call that write the array
WriteStep(r, call, t) ==
    LET size == Size(r)
        All == 1..Len(call.ids)
        won == {Idx(call.ids[i], size) : i \in call.P}
        named == {Idx(call.ids[i], size) : i \in All}
        ti == [k \in DOMAIN r.task_info |->
                  IF call.op = "bid" /\ k \in won
                  THEN [r.task_info[k] EXCEPT
                           !.status = STATUS_ASSIGNED,
                           !.cost = UnitCosts(call.ids)[LastPos(call.ids, call.P, k, size)],
                           !.expiry = F32(t + TaskTimeout)]
                  ELSE IF call.op = "mark_complete" /\ k \in named
                  THEN [r.task_info[k] EXCEPT
                           !.status = call.st[LastPos(call.ids, All, k, size)]]
                  ELSE IF call.op = "make_range_available"
                          /\ k >= call.ids[1] /\ k < call.ids[2]
                  THEN [r.task_info[k] EXCEPT !.status = STATUS_AVAILABLE]
                  ELSE IF call.op = "poll_timeouts" /\ k \in call.P
                  THEN [r.task_info[k] EXCEPT !.status = STATUS_AVAILABLE,
                                               !.nRetries = (@ + 1) % Uint8Mod]
                  ELSE r.task_info[k]]
    IN  [r EXCEPT !.task_info = ti]

\* the statements of a call that update the counters (in poll_timeouts, with
\* the retry_failed assignment between them)
CountStep(r, call) ==
    IF call.op = "bid"
    THEN update_cost([r EXCEPT !.nAvailable = @ - Cardinality(call.P),
                               !.nAssigned = @ + Cardinality(call.P)])
    ELSE IF call.op = "mark_complete"
    THEN [r EXCEPT
             !.nCompleted = @ + Cardinality({i \in 1..Len(call.ids) :
                                                call.st[i] = STATUS_COMPLETE}),
             !.nFailed = @ + Cardinality({i \in 1..Len(call.ids) :
                                             call.st[i] = STATUS_FAILED}),
             !.nAssigned = @ - Len(call.ids)]
    ELSE IF call.op = "make_range_available"
    THEN update_nums([r EXCEPT !.nTotal = Cardinality({k \in DOMAIN r.task_info :
                                                          r.task_info[k].status > 0})])
    ELSE LET retry_failed == {k \in DOMAIN r.task_info :
                                 r.task_info[k].nRetries > NRetries}
         IN  [r EXCEPT
                 !.task_info = [k \in DOMAIN r.task_info |->
                                   IF k \in retry_failed
                                   THEN [r.task_info[k] EXCEPT !.status = STATUS_FAILED]
                                   ELSE r.task_info[k]],
                 !.nAssigned = @ - Cardinality(call.P),
                 !.nAvailable = @ + Cardinality(call.P) - Cardinality(retry_failed)]

\* the statements of a call after the locked block: the rule's expiry and the
\* invalidation of the cached advertisement
FinishStep(r, call, t) ==
    [r EXCEPT !.expiry = IF call.op = "poll_timeouts" THEN @ ELSE t + r.rule_timeout,
              !.cached_advert = IF call.op = "mark_complete" THEN @ ELSE {}]

\* a thread enters bid, mark_complete, make_range_available or poll_timeouts
\* and runs it up to the lock; the tests before the lock may end the call
call_begin(c, op, ids, st) ==
    /\ ruleOrder # <<>>
    /\ calls[c].pc = "idle"
    /\ (c = SweepThread) <=> (op = "poll_timeouts")
    /\ LET r == rules[TheRule]
           over == \/ op = "bid" /\ ~r.active
                   \/ op = "make_range_available" /\ RangeInvalid(r, ids[1], ids[2])
       IN  /\ op = "mark_complete"
                  => r.nCompleted + r.nFailed <= MaxCount /\ r.nAssigned >= -MaxCount
           /\ op = "bid" => r.nAvailable >= -MaxCount
           /\ startRule' = IF Quiet THEN r ELSE startRule
           /\ calls' = [calls EXCEPT ![c] = [pc |-> IF over THEN "done" ELSE "wait",
                                             op |-> op, ids |-> ids, st |-> st, P |-> {},
                                             t |-> now]]
    /\ UNCHANGED <<rules, ruleOrder, rule_n, now, sweepKeys, sweepPc, done, advertVars, reqVars, orderVars,
                   info_lock>>

\* with self._info_lock:
call_acquire(c) ==
    /\ calls[c].pc = "wait"
    /\ LockFree(info_lock)
    /\ info_lock' = c
    /\ calls' = [calls EXCEPT ![c].pc = "read"]
    /\ UNCHANGED <<rules, ruleOrder, rule_n, now, sweepKeys, sweepPc, done, advertVars, reqVars, orderVars,
                   startRule>>

\* the first statement under the lock: an id outside the array raises
\* IndexError and ends the call, and a poll_timeouts that finds nothing timed
\* out leaves the block
call_read(c) ==
    /\ calls[c].pc = "read"
    /\ LET r == rules[TheRule]
           call == calls[c]
           raises == /\ call.op \in {"bid", "mark_complete"}
                     /\ \E i \in 1..Len(call.ids) : ~ValidIdx(call.ids[i], Size(r))
           P == IF raises THEN {} ELSE ReadStep(r, call, now)
           leaves == call.op = "poll_timeouts" /\ P = {}
       IN  /\ calls' = [calls EXCEPT ![c].P = P,
                                     ![c].pc = IF raises THEN "done"
                                               ELSE IF leaves THEN "finish" ELSE "write"]
           /\ info_lock' = IF raises \/ leaves THEN NoThread ELSE info_lock
    /\ UNCHANGED <<rules, ruleOrder, rule_n, now, sweepKeys, sweepPc, done, advertVars, reqVars, orderVars,
                   startRule>>

\* the writes of the array
call_write(c) ==
    /\ calls[c].pc = "write"
    /\ rules' = [rules EXCEPT ![TheRule] = WriteStep(@, calls[c], now)]
    /\ calls' = [calls EXCEPT ![c].pc = "count"]
    /\ UNCHANGED <<ruleOrder, rule_n, now, sweepKeys, sweepPc, done, advertVars, reqVars, orderVars,
                   info_lock, startRule>>

\* the updates of the counters, and the end of the locked block
call_count(c) ==
    /\ calls[c].pc = "count"
    /\ rules' = [rules EXCEPT ![TheRule] = CountStep(@, calls[c])]
    /\ calls' = [calls EXCEPT ![c].pc = "finish"]
    /\ info_lock' = NoThread
    /\ UNCHANGED <<ruleOrder, rule_n, now, sweepKeys, sweepPc, done, advertVars, reqVars, orderVars,
                   startRule>>

\* the statements after the locked block, and the return
call_finish(c) ==
    /\ calls[c].pc = "finish"
    /\ rules' = [rules EXCEPT ![TheRule] = FinishStep(@, calls[c], now)]
    /\ calls' = [calls EXCEPT ![c].pc = "done"]
    /\ UNCHANGED <<ruleOrder, rule_n, now, sweepKeys, sweepPc, done, advertVars, reqVars, orderVars,
                   info_lock, startRule>>

\* ------------------------------------------------------------------------
\* Requests split at the look-up: an endpoint first evaluates
\* self._rules[ruleID], without a lock, and then calls a method of the rule
\* object it got; the sweep can pop the rule in between
\* ------------------------------------------------------------------------
\* the requests a thread can serve for a rule of the given size
ReqCalls(size) ==
    {[op |-> "bid_on_tasks", args |-> <<k>>] : k \in 0..(size - 1)}
    \cup {[op |-> "handin", args |-> <<k, st>>] : k \in 0..(size - 1), st \in HandinStatuses}
    \cup {[op |-> "release_rule_tasks", args |-> <<0, b>>] : b \in 1..size}
    \cup {[op |-> "inactivate_rule", args |-> <<>>]}

\* the method the endpoint calls, on the rule object r
ReqResult(r, op, args, t) ==
    IF op = "bid_on_tasks" THEN bid(r, <<args[1]>>, <<1>>, t)
    ELSE IF op = "handin"
    THEN LET res == mark_complete(r, <<args[1]>>, <<args[2]>>, t)
         IN  [rule |-> res.rule, ids |-> <<>>, err |-> res.err]
    ELSE IF op = "release_rule_tasks"
    THEN LET res == make_range_available(r, args[1], args[2], t)
         IN  [rule |-> res.rule, ids |-> <<>>, err |-> res.err]
    ELSE [rule |-> inactivate(r), ids |-> <<>>, err |-> ""]

\* rule = self._rules[ruleID]: KeyError ends the request, otherwise the
\* thread holds the rule object
req_lookup(c, op, q, args) ==
    /\ reqs[c].pc \in {"idle", "done"}
    /\ reqs' = [reqs EXCEPT ![c] =
                    [pc |-> IF q \in DOMAIN rules THEN "held" ELSE "done",
                     op |-> op, q |-> q, args |-> args,
                     out |-> IF q \in DOMAIN rules THEN "none" ELSE "KeyError",
                     removed |-> FALSE, ids |-> <<>>]]
    /\ UNCHANGED <<rules, ruleOrder, rule_n, now, sweepKeys, sweepPc, done, advertVars,
                   info_lock, calls, startRule, orphans, orderVars>>

\* the rule objects still referred to by a thread other than c
Referred(c) == {reqs[x].q : x \in {y \in Callers : y # c /\ reqs[y].pc = "held"}}

\* rule.bid(...), rule.mark_complete(...), rule.make_range_available(...) or
\* rule.inactivate() on the object the thread holds, registered or not, and
\* the response
req_apply(c) ==
    /\ reqs[c].pc = "held"
    /\ LET q == reqs[c].q
           gone == q \in DOMAIN orphans
           r == IF gone THEN orphans[q] ELSE rules[q]
           res == ReqResult(r, reqs[c].op, reqs[c].args, now)
           kept == IF gone THEN [orphans EXCEPT ![q] = res.rule] ELSE orphans
       IN  /\ res.rule.nCompleted + res.rule.nFailed <= MaxCount
           /\ res.rule.nAssigned >= -MaxCount
           /\ res.rule.nAvailable >= -MaxCount
           /\ rules' = IF gone THEN rules ELSE [rules EXCEPT ![q] = res.rule]
           /\ orphans' = [x \in (DOMAIN kept) \cap Referred(c) |-> kept[x]]
           /\ done' = IF ~gone /\ reqs[c].op = "handin" /\ res.err = ""
                      THEN [done EXCEPT ![q] = @ \cup HandedComplete(r, <<reqs[c].args[1]>>,
                                                                      <<reqs[c].args[2]>>)]
                      ELSE done
           /\ reqs' = [reqs EXCEPT ![c].pc = "done",
                                   ![c].out = IF res.err = "" THEN "ok" ELSE res.err,
                                   ![c].removed = gone,
                                   ![c].ids = res.ids]
    /\ UNCHANGED <<ruleOrder, rule_n, now, sweepKeys, sweepPc, advertVars,
                   info_lock, calls, startRule, orderVars>>

\* _poll_rules: the test of a rule, while request threads hold rule objects:
\* a popped rule that a thread refers to lives on outside the registry
sweep_check_held ==
    /\ SweepCheck
    /\ LET q == Head(sweepKeys)
       IN  orphans' = IF q \notin DOMAIN rules'
                         /\ \E c \in Callers : reqs[c].pc = "held" /\ reqs[c].q = q
                      THEN With(orphans, q, rules[q])
                      ELSE orphans
    /\ UNCHANGED <<now, advertVars, info_lock, calls, startRule, reqs, orderVars>>

\* ------------------------------------------------------------------------
\* The locks: every operation as the list of its lock steps, in program
\* order.  A `with` block is an acquire and, on every way out of the block,
\* a release; `with a, b` acquires a then b and releases b then a.
\* threading.Lock is not reentrant.
\* ------------------------------------------------------------------------
Acq(l) == <<"acquire", l>>

Rel(l) == <<"release", l>>

\* with l: a block that takes no other lock
Guarded(l) == <<Acq(l), Rel(l)>>

\* task_advertisements rebuilding its list: rules[ruleN].advert for each rule
RECURSIVE VisitAdverts(_)
VisitAdverts(n) ==
    IF n > MaxRules THEN <<>>
    ELSE Guarded(RuleLock(n, "advert")) \o VisitAdverts(n + 1)

\* a mark_datasource_complete that keeps its locks when the rule raises
MdsPlan_NoRelease(r, v) ==
    IF v = "KeyError" THEN Guarded(ServerLock("rule"))
    ELSE IF v = "ValueError"
    THEN <<Acq(ServerLock("rule")), Acq(RuleLock(r, "info")), Acq(RuleLock(r, "advert"))>>
    ELSE <<Acq(ServerLock("rule")), Acq(RuleLock(r, "info")), Acq(RuleLock(r, "advert")),
           Rel(RuleLock(r, "advert")), Rel(RuleLock(r, "info")), Rel(ServerLock("rule"))>>

\* RuleServer.mark_datasource_complete: _rule_lock around the look-up and
\* the call, which takes both locks of the rule; a KeyError leaves the outer
\* block before the rule is called, a ValueError leaves all three blocks
MdsPlan(r, v) ==
    IF v = "KeyError" THEN Guarded(ServerLock("rule"))
    ELSE <<Acq(ServerLock("rule")), Acq(RuleLock(r, "info")), Acq(RuleLock(r, "advert")),
           Rel(RuleLock(r, "advert")), Rel(RuleLock(r, "info")), Rel(ServerLock("rule"))>>

\* the ways an operation can run, as far as its locks are concerned
Variants(op) ==
    IF op \in {"task_advertisements", "get_queues"} THEN {"rebuild", "cached"}
    ELSE IF op = "mark_datasource_complete" THEN {"plain", "KeyError", "ValueError"}
    ELSE IF op = "bid" THEN {"plain", "IndexError"}
    ELSE IF op = "poll_rules" THEN {"plain", "removed", "follow-on"}
    ELSE {"plain"}

\* the lock steps of an operation on rule r
Plan(op, r, v) ==
    IF op = "task_advertisements"
    THEN IF v = "cached" THEN Guarded(ServerLock("advert"))
         ELSE <<Acq(ServerLock("advert"))>> \o VisitAdverts(1) \o <<Rel(ServerLock("advert"))>>
    ELSE IF op = "get_queues"
    THEN IF v = "cached" THEN Guarded(ServerLock("info"))
         ELSE <<Acq(ServerLock("info")), Acq(ServerLock("rule")),
                Rel(ServerLock("rule")), Rel(ServerLock("info"))>>
    ELSE IF op = "mark_datasource_complete" THEN MdsPlan(r, v)
    ELSE IF op = "bid"
    THEN IF v = "IndexError" THEN Guarded(RuleLock(r, "info"))
         ELSE Guarded(RuleLock(r, "info")) \o Guarded(RuleLock(r, "advert"))
    ELSE IF op = "mark_complete" THEN Guarded(RuleLock(r, "info"))
    ELSE IF op = "make_range_available"
    THEN Guarded(RuleLock(r, "info")) \o Guarded(RuleLock(r, "advert"))
    ELSE IF op = "advert" THEN Guarded(RuleLock(r, "advert"))
    ELSE \* one pass of the loop of _poll_rules: poll_timeouts, then the pop
         \* of a finished or expired rule and the insertion of a follow-on
         Guarded(RuleLock(r, "info")) \o Guarded(RuleLock(r, "advert"))
         \o (IF v = "plain" THEN <<>> ELSE Guarded(ServerLock("rule")))
         \o (IF v = "follow-on" THEN Guarded(ServerLock("rule")) ELSE <<>>)

\* the operations of the request threads
RequestOps ==
    {"task_advertisements", "get_queues", "mark_datasource_complete", "bid",
     "mark_complete", "make_range_available", "advert"}

\* thread c has no operation in progress
Finished(c) == lockers[c].i > Len(lockers[c].plan)

\* thread c is at an acquire of a lock that is held
Waiting(c) ==
    /\ ~Finished(c)
    /\ lockers[c].plan[lockers[c].i][1] = "acquire"
    /\ held[lockers[c].plan[lockers[c].i][2]] # NoThread

\* a thread starts an operation
lock_begin(c, op, r, v) ==
    /\ Finished(c)
    /\ (c = SweepThread) <=> (op = "poll_rules")
    /\ lockers' = [lockers EXCEPT ![c] = [op |-> op, v |-> v, plan |-> Plan(op, r, v),
                                         i |-> 1, stack |-> lockers[c].stack]]
    /\ UNCHANGED <<rules, ruleOrder, rule_n, now, sweepKeys, sweepPc, done, advertVars,
                   info_lock, calls, startRule, reqVars, held>>

\* a thread takes the next lock step of its operation
lock_step(c) ==
    /\ ~Finished(c)
    /\ ~Waiting(c)
    /\ LET step == lockers[c].plan[lockers[c].i]
           l == step[2]
       IN  IF step[1] = "acquire"
           THEN /\ held' = [held EXCEPT ![l] = c]
                /\ lockers' = [lockers EXCEPT ![c].i = @ + 1,
                                              ![c].stack = Append(@, l)]
           ELSE /\ held' = [held EXCEPT ![l] = NoThread]
                /\ lockers' = [lockers EXCEPT
                                  ![c].i = @ + 1,
                                  ![c].stack = SelectSeq(@, LAMBDA x : x # l)]
    /\ UNCHANGED <<rules, ruleOrder, rule_n, now, sweepKeys, sweepPc, done, advertVars,
                   info_lock, calls, startRule, reqVars>>

\* ------------------------------------------------------------------------
\* Requests, with their inputs
\* ------------------------------------------------------------------------
AddStepOf(sizes, descriptors) ==
    \E given \in UserRuleIDs, m \in sizes, timeout \in RuleTimeouts, d \in descriptors :
        \E release \in {<<>>, <<0, m>>, <<0, m + 1>>} :
            add_integer_id_rule(given, m, release, timeout, d)

ReleaseStep ==
    \E q \in AddressableIDs :
        \E start \in 0..(IF q \in DOMAIN rules THEN Size(rules[q]) ELSE 0),
           end \in 0..(IF q \in DOMAIN rules THEN Size(rules[q]) + 1 ELSE 0) :
            release_rule_tasks(q, start, end)

BidStep ==
    \E q \in AddressableIDs :
        \E ids \in IDLists(IF q \in DOMAIN rules THEN Size(rules[q]) ELSE 0) :
            \E costs \in [1..Len(ids) -> Costs] :
                bid_on_tasks(q, ids, costs)

HandinStepOf(statuses) ==
    \E q \in AddressableIDs :
        \E ids \in IDLists(IF q \in DOMAIN rules THEN Size(rules[q]) ELSE 0) :
            \E status \in [1..Len(ids) -> statuses] :
                handin(q, ids, status)

MdsStepOf(bound) ==
    \E q \in AddressableIDs, n_max \in 0..bound :
        server_mark_datasource_complete(q, n_max)

InactivateStep == \E q \in AddressableIDs : inactivate_rule(q)

AdvertStep == \E q \in DOMAIN rules : read_advert(q)

\* ------------------------------------------------------------------------
\* Spec: the whole server against the clock, rules of up to MaxTasks tasks,
\* hand-ins with the documented statuses
\* ------------------------------------------------------------------------
AddStep == AddStepOf(1..MaxTasks, Descriptors)

HandinStep == HandinStepOf(HandinStatuses)

MdsStep == MdsStepOf(MaxTasks)

Next ==
    \/ AddStep
    \/ ReleaseStep
    \/ BidStep
    \/ HandinStep
    \/ MdsStep
    \/ InactivateStep
    \/ AdvertStep
    \/ sweep_poll
    \/ sweep_check
    \/ Tick

Spec == Init /\ [][Next]_vars

\* ------------------------------------------------------------------------
\* SpecWide: rules of MaxTasksWide tasks, the clock standing still
\* ------------------------------------------------------------------------
AddWide == AddStepOf({MaxTasksWide}, {<<>>})

MdsWide == MdsStepOf(MaxTasksWide)

NextWide ==
    \/ AddWide
    \/ ReleaseStep
    \/ BidStep
    \/ HandinStep
    \/ MdsWide
    \/ AdvertStep
    \/ sweep_poll
    \/ sweep_check

SpecWide == Init /\ [][NextWide]_vars

\* ------------------------------------------------------------------------
\* SpecRule: as SpecWide, for a rule built directly with IntegerIDRule(...),
\* whose datasource_complete argument the caller chooses
\* ------------------------------------------------------------------------
InitRule ==
    \E q \in UserRuleIDs, flag \in BOOLEAN, timeout \in RuleTimeouts :
        /\ rules = With(<<>>, q, NewRule(MaxTasksWide, timeout, <<>>, flag, StartTime))
        /\ ruleOrder = <<q>>
        /\ rule_n = 0
        /\ now = StartTime
        /\ sweepKeys = <<>>
        /\ sweepPc = "sleep"
        /\ done = With(<<>>, q, {})
        /\ cached_advert = <<>>
        /\ cached_advert_expiry = 0
        /\ callers = [c \in Callers |-> IdleCaller]
        /\ rebuilt = [n |-> 0, time |-> 0, adverts |-> <<>>]
        /\ info_lock = NoThread
        /\ calls = [c \in Threads |-> IdleCall]
        /\ startRule = <<>>
        /\ reqs = [c \in Callers |-> IdleReq]
        /\ orphans = <<>>
        /\ held = [l \in Locks |-> NoThread]
        /\ lockers = [c \in Threads |-> IdleLocker]

SpecRule == InitRule /\ [][NextWide]_vars

\* ------------------------------------------------------------------------
\* SpecAnyStatus: rules of up to MaxTasks tasks, the clock standing still,
\* hand-ins with whatever status the worker sends
\* ------------------------------------------------------------------------
HandinAny == HandinStepOf(AnyStatuses)

NextAnyStatus ==
    \/ AddStep
    \/ ReleaseStep
    \/ BidStep
    \/ HandinAny
    \/ AdvertStep
    \/ sweep_poll
    \/ sweep_check

SpecAnyStatus == Init /\ [][NextAnyStatus]_vars

\* ------------------------------------------------------------------------
\* SpecAdverts: several rules registered at once, workers reading the
\* advertisement list and bidding, the clock advancing second by second
\* ------------------------------------------------------------------------
AddMany ==
    \E m \in {MaxTasksWide}, timeout \in RuleTimeouts :
        \E release \in {<<>>, <<0, m>>} : add_rule(m, release, timeout)

\* a worker bids for one task it saw advertised
BidOne ==
    \E q \in DOMAIN rules :
        \E k \in 0..(Size(rules[q]) - 1) : bid_on_tasks(q, <<k>>, <<1>>)

NextAdverts ==
    \/ AddMany
    \/ BidOne
    \/ \E c \in Callers : adverts_enter(c)
    \/ \E c \in Callers : adverts_build(c)
    \/ \E c \in Callers : adverts_return(c)
    \/ TickSecond

SpecAdverts == Init /\ [][NextAdverts]_vars

\* ------------------------------------------------------------------------
\* SpecLease: one rule of MaxTasksWide tasks against the clock: releases,
\* bids, hand-ins, lease time-outs and the expiry of the rule
\* ------------------------------------------------------------------------
\* a worker hands in one task
HandinOne ==
    \E q \in DOMAIN rules :
        \E k \in 0..(Size(rules[q]) - 1), st \in HandinStatuses :
            handin(q, <<k>>, <<st>>)

NextLease ==
    \/ AddWide
    \/ ReleaseStep
    \/ BidOne
    \/ HandinOne
    \/ sweep_poll
    \/ sweep_check
    \/ TickLong

SpecLease == Init /\ [][NextLease]_vars

\* ------------------------------------------------------------------------
\* SpecAtomic: request threads and the sweep thread inside bid,
\* mark_complete, make_range_available and poll_timeouts of one rule at the
\* same time, statement by statement; each thread makes one call, and the
\* clock moves while no call is in flight
\* ------------------------------------------------------------------------
\* the calls a request thread makes on a rule of the given size
RequestCalls(size) ==
    [op : {"bid"}, ids : IDLists(size), st : {<<>>}]
    \cup {[op |-> "mark_complete", ids |-> <<k>>, st |-> <<x>>] :
             k \in 0..size, x \in HandinStatuses}
    \cup {[op |-> "make_range_available", ids |-> <<a, b>>, st |-> <<>>] :
             a \in {0}, b \in 1..(size + 1)}

CallStep ==
    \/ \E c \in Callers :
           \E x \in RequestCalls(IF ruleOrder = <<>> THEN 0 ELSE Size(rules[TheRule])) :
               call_begin(c, x.op, x.ids, x.st)
    \/ call_begin(SweepThread, "poll_timeouts", <<>>, <<>>)

NextAtomic ==
    \/ Quiet /\ AddWide
    \/ NoneInFlight /\ TickLong
    \/ CallStep
    \/ \E c \in Threads : call_acquire(c)
    \/ \E c \in Threads : call_read(c)
    \/ \E c \in Threads : call_write(c)
    \/ \E c \in Threads : call_count(c)
    \/ \E c \in Threads : call_finish(c)

SpecAtomic == Init /\ [][NextAtomic]_vars

\* ------------------------------------------------------------------------
\* SpecChain: one rule of up to MaxTasks tasks with a chain of up to
\* MaxChainDeep follow-on descriptors, against the clock
\* ------------------------------------------------------------------------
DeepDescriptors == UNION {[1..n -> Stages] : n \in 0..MaxChainDeep}

AddDeep == AddStepOf(1..MaxTasks, DeepDescriptors)

NextChain ==
    \/ AddDeep
    \/ ReleaseStep
    \/ BidOne
    \/ HandinOne
    \/ sweep_poll
    \/ sweep_check
    \/ Tick

SpecChain == Init /\ [][NextChain]_vars

\* ------------------------------------------------------------------------
\* SpecInactive: one rule of up to MaxTasks tasks against the clock, with
\* inactivate_rule; workers and clients send no release, bid or hand-in for
\* a rule once it is inactivated.  The sweep thread loops for ever
\* (while self._do_poll, time.sleep(5)) and the clock advances.
\* ------------------------------------------------------------------------
ActiveRules == {q \in DOMAIN rules : rules[q].active}

AddPlain == AddStepOf(1..MaxTasks, {<<>>})

ReleaseActive ==
    \E q \in ActiveRules :
        \E start \in 0..Size(rules[q]), end \in 0..Size(rules[q]) :
            release_rule_tasks(q, start, end)

BidActive ==
    \E q \in ActiveRules :
        \E k \in 0..(Size(rules[q]) - 1) : bid_on_tasks(q, <<k>>, <<1>>)

HandinActive ==
    \E q \in ActiveRules :
        \E k \in 0..(Size(rules[q]) - 1), st \in HandinStatuses :
            handin(q, <<k>>, <<st>>)

NextInactive ==
    \/ AddPlain
    \/ ReleaseActive
    \/ BidActive
    \/ HandinActive
    \/ InactivateStep
    \/ sweep_poll
    \/ sweep_check
    \/ TickLong

SpecInactive ==
    /\ Init
    /\ [][NextInactive]_vars
    /\ WF_vars(sweep_poll)
    /\ WF_vars(sweep_check)
    /\ WF_vars(TickLong)

\* ------------------------------------------------------------------------
\* SpecSweep: rules added one after the other, with follow-on descriptors
\* of any content, workers bidding and handing in, and the sweep thread
\* looping for ever unless it raises
\* ------------------------------------------------------------------------
\* follow-on stages as clients can send them: well formed, without a
\* 'template' entry, or with a negative max_tasks
AnyStages ==
    Stages
    \cup [max_tasks : {1}, rule_timeout : RuleTimeouts, template : {FALSE}]
    \cup [max_tasks : {0 - 1}, rule_timeout : RuleTimeouts, template : {TRUE}]

AnyDescriptors == {<<>>} \cup {<<s>> : s \in AnyStages}

\* RuleServer.add_integer_id_rule without a ruleID, whatever is registered
add_live(max_tasks, release, timeout, on_completion) ==
    /\ rule_n < MaxAddsLive
    /\ LET res == AddResult(rules, ruleOrder, rule_n, NoRule, max_tasks, release,
                            timeout, on_completion, now)
       IN  /\ rules' = res.rules
           /\ ruleOrder' = res.order
           /\ rule_n' = res.rule_n
           /\ done' = IF res.err # "" THEN done ELSE With(done, res.ruleID, {})
    /\ UNCHANGED <<now, sweepKeys, sweepPc, advertVars, lockVars>>

AddLive ==
    \E m \in 1..MaxTasks, timeout \in RuleTimeouts, d \in AnyDescriptors :
        \E release \in {<<>>, <<0, m>>} : add_live(m, release, timeout, d)

NextSweep ==
    \/ AddLive
    \/ BidOne
    \/ HandinOne
    \/ sweep_poll
    \/ sweep_check

SpecSweep ==
    /\ Init
    /\ [][NextSweep]_vars
    /\ WF_vars(sweep_poll)
    /\ WF_vars(sweep_check)

\* ------------------------------------------------------------------------
\* SpecRemoval: request threads that look a rule up and then call it, with
\* the sweep removing the rule and the clock advancing in between
\* ------------------------------------------------------------------------
\* one request thread serves requests, one after the other
OneCaller == {c \in Callers : \A x \in Callers : c <= x}

ReqStep ==
    \E c \in OneCaller, q \in AddressableIDs :
        \E x \in ReqCalls(IF q \in DOMAIN rules THEN Size(rules[q]) ELSE MaxTasks) :
            req_lookup(c, x.op, q, x.args)

NextRemoval ==
    \/ AddStep
    \/ ReqStep
    \/ \E c \in OneCaller : req_apply(c)
    \/ sweep_poll
    \/ sweep_check_held
    \/ Tick

SpecRemoval == Init /\ [][NextRemoval]_vars

\* ------------------------------------------------------------------------
\* SpecLocks: the sweep thread and the request threads taking and releasing
\* the locks of the server and of MaxRules rules, operation after operation
\* ------------------------------------------------------------------------
LockBegin ==
    \E c \in Threads, op \in RequestOps \cup {"poll_rules"}, r \in LockRules :
        \E v \in Variants(op) : lock_begin(c, op, r, v)

NextLocks ==
    \/ LockBegin
    \/ \E c \in Threads : lock_step(c)

SpecLocks == Init /\ [][NextLocks]_vars

\* ------------------------------------------------------------------------
\* Properties
\* ------------------------------------------------------------------------
Status(r, k) == r.task_info[k].status

\* the step is the sweep's poll_timeouts call on rule q
IsPollOf(q) ==
    /\ sweepPc # "check"
    /\ sweepPc' = "check"
    /\ q = Head(sweepKeys')

\* C1: a task that a bid has been granted is granted to no other bid until
\* poll_timeouts reverts it or make_range_available releases it again: every
\* id a bid grants was Available before the call and is Assigned after it (so
\* an id that is Assigned is in no grant list), and the only steps that make
\* a task Available are the timeout revert and a release covering it.
\* Hand-ins carry the documented statuses (Complete or Failed).
C1_GrantsOnlyAvailable ==
    \A q \in DOMAIN rules :
        \A ids \in IDLists(Size(rules[q])) :
            \A costs \in [1..Len(ids) -> Costs] :
                LET res == bid(rules[q], ids, costs, now)
                IN  \A i \in 1..Len(res.ids) :
                        /\ Status(rules[q], Idx(res.ids[i], Size(rules[q]))) = STATUS_AVAILABLE
                        /\ Status(res.rule, Idx(res.ids[i], Size(rules[q]))) = STATUS_ASSIGNED

C1_OnlyRevertOrRelease ==
    \A q \in (DOMAIN rules) \cap (DOMAIN rules') :
        \A k \in (DOMAIN rules[q].task_info) \cap (DOMAIN rules'[q].task_info) :
            (Status(rules[q], k) # STATUS_AVAILABLE /\ Status(rules'[q], k) = STATUS_AVAILABLE)
            => \/ IsPollOf(q) /\ k \in TimedOut(rules[q], now)
               \/ \E start \in 0..k, end \in (k + 1)..Size(rules[q]) :
                      rules'[q] = make_range_available(rules[q], start, end, now).rule

C2_RevertAtFirstSweep ==
    \A q \in DOMAIN rules :
        \A k \in DOMAIN rules[q].task_info :
            LET r == rules[q]
                p == poll_timeouts(r, now)
            IN  (/\ r.active
                 /\ Status(r, k) = STATUS_ASSIGNED
                 /\ r.task_info[k].expiry < now
                 /\ r.task_info[k].nRetries + 1 <= NRetries)
                => /\ Status(p, k) = STATUS_AVAILABLE
                   /\ p.task_info[k].nRetries = r.task_info[k].nRetries + 1
                   /\ k \in advert(p).adv

\* C3: a task whose lease has expired NRetries + 1 times is Failed and stays
\* Failed whatever is called afterwards: never Available, never listed in an
\* advertisement, never granted to a bidder.
C3_FailedIsTerminal ==
    \A q \in DOMAIN rules :
        \A k \in DOMAIN rules[q].task_info :
            rules[q].task_info[k].nRetries > NRetries
            => /\ Status(rules[q], k) = STATUS_FAILED
               /\ k \notin rules[q].cached_advert
               /\ k \notin Range(bid(rules[q], <<k>>, <<1>>, now).ids)

\* C4: the status of every task of every rule is always one of the five
\* status codes; mark_complete leaves a task Complete or Failed.
C4_StatusInRange ==
    \A q \in DOMAIN rules :
        \A k \in DOMAIN rules[q].task_info :
            Status(rules[q], k) \in STATUS_UNAVAILABLE..STATUS_FAILED

\* the ids of the half-open range [a, b)
Between(a, b) == a..(b - 1)

\* the advertisement read right after make_range_available(a, b) on rule r
AdvertAfterRelease(r, a, b) == advert(make_range_available(r, a, b, now).rule).adv

IsCheckOf(q) ==
    /\ sweepPc = "check"
    /\ sweepPc' # "check"
    /\ q = Head(sweepKeys)

\* C6: finished is true exactly when the datasource is marked complete and
\* the completed count is at least the task bound; the sweep removes a rule
\* exactly when that holds or the rule has expired, so a rule whose flag is
\* false is never reported finished and never removed as finished.
C6_FinishedTest ==
    \A q \in DOMAIN rules :
        /\ finished(rules[q]) <=>
               (rules[q].datasource_complete /\ rules[q].nCompleted >= rules[q].n_max)
        /\ ~rules[q].datasource_complete => ~finished(rules[q])

C6_RemovedOnlyFinished ==
    \A q \in DOMAIN rules :
        IsCheckOf(q)
        => ((q \notin DOMAIN rules') <=>
               \/ rules[q].datasource_complete /\ rules[q].nCompleted >= rules[q].n_max
               \/ expired(rules[q], now))

C6_FinishedNeedsFlag == [](C6_FinishedTest) /\ [][C6_RemovedOnlyFinished]_vars

\* the sweep is about to test a rule whose tasks are all handed in as
\* Complete while the datasource is not marked complete
C6_Witness ==
    /\ sweepPc = "check"
    /\ \E q \in DOMAIN rules :
           /\ q = Head(sweepKeys)
           /\ ~rules[q].datasource_complete
           /\ rules[q].nCompleted >= rules[q].n_max
           /\ rules[q].n_max > 0

\* C7: when the sweep removes a finished rule that has a follow-on
\* descriptor, exactly one new rule is registered for it, every task of the
\* new rule in [0, max_tasks) is Available in the state where the rule first
\* shows in the registry, and the new rule carries only the rest of the
\* descriptor; no other step registers a rule under a generated id.
C7_FollowOnRegistered ==
    \A q \in DOMAIN rules :
        (IsCheckOf(q) /\ finished(rules[q]) /\ rules[q].on_completion # <<>>)
        => LET d == rules[q].on_completion
               new == (DOMAIN rules') \ (DOMAIN rules)
           IN  /\ q \notin DOMAIN rules'
               /\ Cardinality(new) = 1
               /\ \A f \in new :
                      /\ DOMAIN rules'[f].task_info = 0..(d[1].max_tasks - 1)
                      /\ \A k \in 0..(d[1].max_tasks - 1) :
                             Status(rules'[f], k) = STATUS_AVAILABLE
                      /\ rules'[f].on_completion = Tail(d)
                      /\ rules'[f].active

C7_OnlyFromFinished ==
    \A f \in (DOMAIN rules') \ (DOMAIN rules) :
        f[1] = "auto"
        => \E q \in DOMAIN rules :
               IsCheckOf(q) /\ finished(rules[q]) /\ rules[q].on_completion # <<>>

C8_AllHandedIn(q) ==
    /\ rules[q].datasource_complete
    /\ rules[q].n_max = Size(rules[q])
    /\ done[q] = DOMAIN rules[q].task_info

C8_Finished == \A q \in DOMAIN rules : C8_AllHandedIn(q) => finished(rules[q])

C8_Removed ==
    \A q \in DOMAIN rules : (IsCheckOf(q) /\ C8_AllHandedIn(q)) => q \notin DOMAIN rules'

C8_CompleteThenRemoved == [](C8_Finished) /\ [][C8_Removed]_vars

\* the sweep is about to test a rule all of whose tasks were granted and
\* handed in as Complete
C8_Witness ==
    /\ sweepPc = "check"
    /\ \E q \in DOMAIN rules :
           /\ q = Head(sweepKeys)
           /\ C8_AllHandedIn(q)
           /\ \A k \in DOMAIN rules[q].task_info : Status(rules[q], k) = STATUS_COMPLETE
           /\ rules[q].nAssigned = 0
           /\ rules[q].nAvailable = 0
           /\ rules[q].nCompleted = Size(rules[q])

\* C9: mark_datasource_complete(n_max) with n_max below the number of
\* Assigned tasks is rejected with an error and leaves the whole rule state
\* as it was: statuses, task bound, datasource flag and every counter.
C9_RejectedUnchanged ==
    \A q \in DOMAIN rules :
        \A n_max \in 0..Size(rules[q]) :
            n_max < CountStatus(rules[q].task_info, STATUS_ASSIGNED)
            => /\ mark_datasource_complete(rules[q], n_max).err # ""
               /\ mark_datasource_complete(rules[q], n_max).rule = rules[q]

\* C10: make_range_available(start, end) fails with an error and changes no
\* task status whenever 0 <= start <= end <= maxTaskID does not hold,
\* start > end and end above a lowered task bound included.
C10_BadRangeRejected ==
    \A q \in DOMAIN rules :
        \A start \in 0..(Size(rules[q]) + 1), end \in 0..(Size(rules[q]) + 1) :
            ~(0 <= start /\ start <= end /\ end <= rules[q].n_max)
            => /\ make_range_available(rules[q], start, end, now).err # ""
               /\ make_range_available(rules[q], start, end, now).rule.task_info
                      = rules[q].task_info

\* C11: once inactivate has returned for a rule, in every later state every
\* bid on the rule grants no task and changes nothing, the rule's advert is
\* None, and mark_complete is still accepted and applied; a rule is never
\* active again.
C11_InactiveRule ==
    \A q \in DOMAIN rules :
        ~rules[q].active
        => /\ \A ids \in IDLists(Size(rules[q])) :
                  \A costs \in [1..Len(ids) -> Costs] :
                      /\ bid(rules[q], ids, costs, now).ids = <<>>
                      /\ bid(rules[q], ids, costs, now).rule = rules[q]
           /\ advert(rules[q]).adv = {}
           /\ \A k \in DOMAIN rules[q].task_info, st \in HandinStatuses :
                  LET res == mark_complete(rules[q], <<k>>, <<st>>, now)
                  IN  /\ res.err = ""
                      /\ Status(res.rule, k) = st
                      /\ res.rule.nCompleted + res.rule.nFailed
                             = rules[q].nCompleted + rules[q].nFailed + 1

C11_StaysInactive ==
    \A q \in (DOMAIN rules) \cap (DOMAIN rules') : ~rules[q].active => ~rules'[q].active

C11_Inactivated == [](C11_InactiveRule) /\ [][C11_StaysInactive]_vars

\* an inactivated rule has a task that is Available and one advertisement
\* cached from before
C11_Witness ==
    \E q \in DOMAIN rules :
        /\ ~rules[q].active
        /\ rules[q].cached_advert # {}
        /\ \E k \in DOMAIN rules[q].task_info : Status(rules[q], k) = STATUS_AVAILABLE

\* C12: inactivate changes no task status, so Assigned tasks stay Assigned,
\* and poll_timeouts treats the leases of an inactivated rule exactly as
\* those of an active one: a timed-out lease gets its retry count incremented
\* and the task is Available again or Failed.
C12_LeasesKept ==
    \A q \in DOMAIN rules :
        LET r == rules[q]
            p == poll_timeouts(inactivate(r), now)
        IN  /\ inactivate(r) = [r EXCEPT !.active = FALSE]
            /\ p = inactivate(poll_timeouts(r, now))
            /\ \A k \in TimedOut(r, now) :
                   /\ p.task_info[k].nRetries = r.task_info[k].nRetries + 1
                   /\ Status(p, k) = IF p.task_info[k].nRetries > NRetries
                                     THEN STATUS_FAILED ELSE STATUS_AVAILABLE

\* an inactivated rule holds an Assigned task whose lease has timed out
C12_Witness ==
    \E q \in DOMAIN rules :
        /\ ~rules[q].active
        /\ TimedOut(rules[q], now) # {}

\* ids that are not in the registry: one never added, and those the sweep
\* has removed
NotRegistered ==
    (UserRuleIDs \cup {UnknownID} \cup {AutoID(n) : n \in 0..rule_n}) \ DOMAIN rules

\* C13: release_rule_tasks, mark_datasource_complete, bid_on_tasks, handin
\* and inactivate_rule addressed to an id that is not in the registry fail
\* with a not-found outcome (KeyError, or ok = False from handin) and change
\* the state of no registered rule.
C13_UnknownRuleRejected ==
    \A q \in NotRegistered :
        /\ \A start \in 0..MaxTasks, end \in 0..MaxTasks :
               ReleaseResult(rules, q, start, end, now) = [rules |-> rules, err |-> "KeyError"]
        /\ \A n_max \in 0..MaxTasks :
               MdsResult(rules, q, n_max) = [rules |-> rules, err |-> "KeyError"]
        /\ InactivateResult(rules, q) = [rules |-> rules, err |-> "KeyError"]
        /\ \A ids \in IDLists(MaxTasks) :
               /\ BidsResult(rules, <<[ruleID |-> q, taskIDs |-> ids,
                                       costs |-> [i \in 1..Len(ids) |-> 1]]>>, now)
                      = [rules |-> rules, resp |-> <<>>, err |-> "KeyError"]
               /\ \A status \in [1..Len(ids) -> HandinStatuses] :
                      HandinResult(rules, <<[ruleID |-> q, taskIDs |-> ids,
                                             status |-> status]>>, now)
                          = [rules |-> rules, ok |-> FALSE, err |-> ""]

\* the rule a caller added has been removed by the sweep while its follow-on
\* is registered
C13_Witness ==
    /\ DOMAIN rules # {}
    /\ \E q \in UserRuleIDs : q \in NotRegistered /\ rule_n > 0

\* a hand-in entry for rule q: task k with the given status
Entry(q, k, st) == [ruleID |-> q, taskIDs |-> <<k>>, status |-> <<st>>]

\* C14: in a handin batch with an entry for an unknown ruleID the failure is
\* confined to that entry: an entry for a registered rule is applied whether
\* it comes before or after the unknown one, and the response has ok = false.
C14_HandinBatchIsolated ==
    \A q \in DOMAIN rules, u \in NotRegistered :
        \A k \in DOMAIN rules[q].task_info, st \in HandinStatuses :
            LET alone == HandinResult(rules, <<Entry(q, k, st)>>, now)
                before == HandinResult(rules, <<Entry(q, k, st), Entry(u, 0, st)>>, now)
                after == HandinResult(rules, <<Entry(u, 0, st), Entry(q, k, st)>>, now)
            IN  /\ ~before.ok
                /\ before.rules = alone.rules
                /\ ~after.ok
                /\ after.rules = alone.rules

\* a bid on task k of rule q
BidOn(q, k) == [ruleID |-> q, taskIDs |-> <<k>>, costs |-> <<1>>]

\* the tasks of rule q a response reports as granted
Reported(resp, q) ==
    UNION {Range(resp[i].taskIDs) : i \in {j \in 1..Len(resp) : resp[j].ruleID = q}}

\* C15: in a bid_on_tasks batch a bid that fails (unknown ruleID, or a task
\* id outside the task array) does not abort the other bids, and every task
\* that bid_on_tasks moves to Assigned is reported in the response.
C15_BidBatchIsolated ==
    \A q \in DOMAIN rules, u \in NotRegistered :
        \A k \in DOMAIN rules[q].task_info :
            LET alone == BidsResult(rules, <<BidOn(q, k)>>, now)
                bad == {BidOn(u, 0), BidOn(q, Size(rules[q]))}
            IN  \A b \in bad :
                    \A batch \in {<<BidOn(q, k), b>>, <<b, BidOn(q, k)>>} :
                        LET res == BidsResult(rules, batch, now)
                        IN  /\ res.rules = alone.rules
                            /\ \A j \in DOMAIN rules[q].task_info :
                                   (Status(rules[q], j) # STATUS_ASSIGNED
                                    /\ Status(res.rules[q], j) = STATUS_ASSIGNED)
                                   => j \in Reported(res.resp, q)

\* caller-supplied ids that were in the registry and have been removed from
\* it: every rule that add_integer_id_rule registers here carries an id of
\* UserRuleIDs, so such an id is absent with _rule_n > 0 only after a removal
RemovedIDs == {q \in UserRuleIDs : rule_n > 0 /\ q \notin DOMAIN rules}

\* C16: a ruleID that has been removed from the registry never appears in
\* the registry again, whatever add_integer_id_rule is called with.
C16_NoReuse ==
    \A q \in RemovedIDs, given \in UserRuleIDs \cup {NoRule} :
        \A m \in 1..MaxTasks, timeout \in RuleTimeouts :
            q \notin DOMAIN AddResult(rules, ruleOrder, rule_n, given, m, <<>>,
                                      timeout, <<>>, now).rules

\* the step in which request thread c leaves the locked block of
\* task_advertisements
IsBuildOf(c) == callers[c].pc = "locked" /\ callers'[c].pc = "unlocked"

\* the step in which request thread c returns from task_advertisements
IsReturnOf(c) == callers[c].pc = "unlocked" /\ callers'[c].pc = "idle"

\* C17: with request threads interleaved in task_advertisements, a rebuild of
\* the list comes no sooner than one caching interval after the rebuild
\* before it, the cached list changes in no other step, and a thread that
\* returns gets the list of the latest rebuild.
C17_OncePerInterval ==
    [][/\ \A c \in Callers :
              IsBuildOf(c) /\ rebuilt'.n # rebuilt.n /\ rebuilt.n > 0
                  => rebuilt'.time - rebuilt.time >= AdvertInterval
       /\ rebuilt'.n = rebuilt.n => cached_advert' = cached_advert
       /\ \A c \in Callers : IsReturnOf(c) => callers'[c].resp = rebuilt.adverts]_vars

\* after the second rebuild one thread has returned its list while another is
\* inside the locked block and will not rebuild
C17_Witness ==
    /\ rebuilt.n = 2
    /\ rebuilt.adverts # <<>>
    /\ \E c, d \in Callers :
           /\ c # d
           /\ callers[c].pc = "idle" /\ callers[c].resp = rebuilt.adverts
           /\ callers[d].pc = "locked" /\ callers[d].t <= cached_advert_expiry

\* the task ids the i-th registered rule advertises now ({} when it has no
\* advertisement)
AdvOf(i) == advert(rules[ruleOrder[i]]).adv

\* the number of task ids the rules registered before the i-th advertise
TotalBefore(i) ==
    Cardinality(UNION {{<<j, k>> : k \in AdvOf(j)} : j \in 1..(i - 1)})

\* the rules a rebuild under the given cap lists: those with an
\* advertisement, while the ids advertised before them stay below the cap
Listed(cap) ==
    {i \in 1..Len(ruleOrder) : AdvOf(i) # {} /\ TotalBefore(i) < cap}

\* C18: under the server's cap and under any small one, the rebuilt list is,
\* in registration order, the non-empty advertisements of the rules before
\* which fewer than cap task ids
\* are advertised; these rules are a prefix of the rules with an
\* advertisement, and the list exceeds the cap by less than the size of its
\* last advertisement.
C18_AdvertPrefix ==
    \A cap \in (1..MaxCap) \cup {MAX_ADVERTISEMENTS} :
        LET b == AdvertsFrom(rules, ruleOrder, 1, <<>>, 0, cap).adverts
            total == TotalBefore(Len(ruleOrder) + 1)
            listedTotal == Cardinality(UNION {{<<n, k>> : k \in b[n].availableTaskIDs} :
                                              n \in 1..Len(b)})
        IN  /\ Len(b) = Cardinality(Listed(cap))
            /\ \A i \in Listed(cap) :
                   b[Cardinality({j \in Listed(cap) : j <= i})] =
                       [ruleID |-> ruleOrder[i], availableTaskIDs |-> AdvOf(i)]
            /\ \A i \in Listed(cap) : \A j \in 1..(i - 1) :
                   AdvOf(j) # {} => j \in Listed(cap)
            /\ listedTotal <= total
            /\ Len(b) > 0 /\ listedTotal >= cap
                   => listedTotal - cap < Cardinality(b[Len(b)].availableTaskIDs)

\* two rules advertise tasks, the server has rebuilt its list with both, and
\* under a cap of one task id only the first rule would be listed, with more
\* ids than the cap
C18_Witness ==
    /\ Len(ruleOrder) = 2
    /\ AdvOf(1) # {} /\ AdvOf(2) # {}
    /\ Len(rebuilt.adverts) = 2
    /\ Listed(1) = {1}
    /\ Cardinality(AdvOf(1)) > 1

\* C19: between operations, every rule's nAssigned is the number of its
\* tasks with status Assigned and its nAvailable the number of its tasks with
\* status Available.
C19_CountersMatch ==
    \A q \in DOMAIN rules :
        /\ rules[q].nAssigned = CountStatus(rules[q].task_info, STATUS_ASSIGNED)
        /\ rules[q].nAvailable = CountStatus(rules[q].task_info, STATUS_AVAILABLE)

\* C20: between operations, every rule's nCompleted is the number of its
\* tasks with status Complete.
C20_CompletedMatches ==
    \A q \in DOMAIN rules :
        rules[q].nCompleted = CountStatus(rules[q].task_info, STATUS_COMPLETE)

\* the tasks a poll_timeouts call at time t turns Failed
NewlyFailed(r, t) ==
    {k \in DOMAIN r.task_info :
        Status(r, k) # STATUS_FAILED /\ Status(poll_timeouts(r, t), k) = STATUS_FAILED}

\* C21: the sweep that fails a task for exceeding the retry limit adds it to
\* the rule's nFailed (the tasksFailed of info).
C21_SweepCountsFailed ==
    \A q \in DOMAIN rules :
        poll_timeouts(rules[q], now).nFailed =
            rules[q].nFailed + Cardinality(NewlyFailed(rules[q], now))

\* the step is the sweep removing rule q as expired
IsExpiryOf(q) ==
    /\ IsCheckOf(q)
    /\ q \in DOMAIN rules
    /\ q \notin DOMAIN rules'
    /\ ~finished(rules[q])

\* C22: a rule the sweep removes as expired has, at that moment, no task with
\* status Available and no task with status Assigned in its task array.
C22_ExpiredHoldsNothing ==
    [][\A q \in DOMAIN rules :
           IsExpiryOf(q) =>
               /\ CountStatus(rules[q].task_info, STATUS_AVAILABLE) = 0
               /\ CountStatus(rules[q].task_info, STATUS_ASSIGNED) = 0]_vars

\* C23: every task id a rule advertises and every task whose status is
\* Available or Assigned lies below the rule's task bound (_n_max), also once
\* mark_datasource_complete has lowered the bound.
C23_IdsBelowBound ==
    \A q \in DOMAIN rules :
        /\ \A k \in advert(rules[q]).adv : k < rules[q].n_max
        /\ \A k \in DOMAIN rules[q].task_info :
               Status(rules[q], k) \in {STATUS_AVAILABLE, STATUS_ASSIGNED}
                   => k < rules[q].n_max

\* C24: between operations, what advert returns for an active rule is
\* exactly the set of tasks whose status is Available (no advertisement when
\* there is none).
C24_AdvertIsAvailable ==
    \A q \in DOMAIN rules :
        rules[q].active => advert(rules[q]).adv = AvailableTasks(rules[q])

\* the array slots a request's id list names
Named(r, ids) == {Idx(ids[i], Size(r)) : i \in 1..Len(ids)}

\* C25: a bid leaves every task it names that is not Available as it was
\* (status, cost, lease expiry, retry count) and does not list it among the
\* granted ids; tasks it does not name are unchanged too, and a bid that
\* raises changes nothing.
C25_BidFrame ==
    \A q \in DOMAIN rules :
        \A ids \in IDLists(Size(rules[q])) :
            \A costs \in [1..Len(ids) -> Costs] :
                LET r == rules[q]
                    b == bid(r, ids, costs, now)
                IN  IF b.err # "" THEN b.rule = r /\ b.ids = <<>>
                    ELSE /\ DOMAIN b.rule.task_info = DOMAIN r.task_info
                         /\ \A k \in DOMAIN r.task_info :
                                (Status(r, k) # STATUS_AVAILABLE \/ k \notin Named(r, ids))
                                    => b.rule.task_info[k] = r.task_info[k]
                         /\ \A i \in 1..Len(b.ids) :
                                Status(r, Idx(b.ids[i], Size(r))) = STATUS_AVAILABLE

\* an active rule holds a leased task, with its cost and expiry, beside an
\* Available one, so that a bid naming both is granted only the second
C25_Witness ==
    \E q \in DOMAIN rules :
        /\ rules[q].active
        /\ Size(rules[q]) > 1
        /\ Status(rules[q], 0) = STATUS_ASSIGNED
        /\ rules[q].task_info[0].cost > 0
        /\ Status(rules[q], 1) = STATUS_AVAILABLE
        /\ bid(rules[q], <<0, 1>>, [i \in 1..2 |-> 1], now).ids = <<1>>

\* C26: poll_timeouts changes the status and the retry count only of tasks
\* that are Assigned with a lease expiry earlier than now; every other task
\* keeps both.
C26_PollFrame ==
    \A q \in DOMAIN rules :
        \A k \in DOMAIN rules[q].task_info :
            LET r == rules[q]
                p == poll_timeouts(r, now)
            IN  ~(Status(r, k) = STATUS_ASSIGNED /\ r.task_info[k].expiry < now)
                    => /\ Status(p, k) = Status(r, k)
                       /\ p.task_info[k].nRetries = r.task_info[k].nRetries

\* the ids a bid on rule r at time t is granted, as array slots
Granted(r, ids, costs, t) ==
    {Idx(x, Size(r)) : x \in Range(bid(r, ids, costs, t).ids)}

\* clock readings up to the end of a lease granted at time t: the grant
\* time, and the last F32Spacing seconds of the lease
LeaseTimes(t) == {t} \cup {t + TaskTimeout - d : d \in 0..F32Spacing}

\* poll_timeouts takes no lease granted at the present time before the lease
\* has run for TaskTimeout seconds
NeverEarly ==
    \A q \in DOMAIN rules :
        \A ids \in IDLists(Size(rules[q])) :
            \A costs \in [1..Len(ids) -> Costs] :
                LET b == bid(rules[q], ids, costs, now).rule
                IN  \A k \in Granted(rules[q], ids, costs, now) :
                        \A t \in LeaseTimes(now) :
                            /\ k \notin TimedOut(b, t)
                            /\ Status(poll_timeouts(b, t), k) = STATUS_ASSIGNED

\* C27: a bid granted at time t records t + TaskTimeout as the lease expiry
\* of each granted task, and poll_timeouts at any time up to t + TaskTimeout
\* leaves the task Assigned.
C27_LeaseFullLength ==
    /\ \A q \in DOMAIN rules :
           \A ids \in IDLists(Size(rules[q])) :
               \A costs \in [1..Len(ids) -> Costs] :
                   \A k \in Granted(rules[q], ids, costs, now) :
                       bid(rules[q], ids, costs, now).rule.task_info[k].expiry
                           = now + TaskTimeout
    /\ NeverEarly

\* what C28 and C29 compare of a rule: the status of every task and the
\* counters
Books(r) ==
    [status |-> [k \in DOMAIN r.task_info |-> Status(r, k)],
     nAssigned |-> r.nAssigned, nAvailable |-> r.nAvailable,
     nCompleted |-> r.nCompleted, nFailed |-> r.nFailed]

\* C28: handing in the same ids with the same statuses twice in a row leaves
\* the task statuses and the counters as handing them in once.
C28_HandinIdempotent ==
    \A q \in DOMAIN rules :
        \A ids \in IDLists(Size(rules[q])) :
            \A status \in [1..Len(ids) -> HandinStatuses] :
                LET once == mark_complete(rules[q], ids, status, now)
                    twice == mark_complete(once.rule, ids, status, now)
                IN  once.err = "" => Books(twice.rule) = Books(once.rule)

\* pairs of id lists for a rule of the given size that have no id in common
DisjointLists(size) ==
    {p \in IDLists(size) \X IDLists(size) : Range(p[1]) \cap Range(p[2]) = {}}

ApplyCall(r, call) ==
    IF call.op = "bid" THEN bid(r, call.ids, UnitCosts(call.ids), call.t).rule
    ELSE IF call.op = "mark_complete"
    THEN mark_complete(r, call.ids, call.st, call.t).rule
    ELSE IF call.op = "make_range_available"
    THEN make_range_available(r, call.ids[1], call.ids[2], call.t).rule
    ELSE poll_timeouts(r, call.t)

\* the rule after the calls of the threads listed in order, one after the
\* other, from rule r
RECURSIVE Serial(_, _, _)
Serial(r, order, i) ==
    IF i > Len(order) THEN r
    ELSE Serial(ApplyCall(r, calls[order[i]]), order, i + 1)

\* the orders in which the threads of S can be lined up
Orders(S) ==
    {o \in [1..Cardinality(S) -> S] : \A i, j \in 1..Cardinality(S) : o[i] = o[j] => i = j}

\* what the locked blocks maintain: the task array and the counters
Ledger(r) ==
    [task_info |-> r.task_info, nTotal |-> r.nTotal, nAssigned |-> r.nAssigned,
     nAvailable |-> r.nAvailable, nCompleted |-> r.nCompleted, nFailed |-> r.nFailed,
     avCost |-> r.avCost]

\* the threads whose call has returned
Returned == {c \in Threads : calls[c].pc = "done"}

\* C30: at most one thread is inside a locked block, and once the calls
\* that threads made on a rule at the same time have all returned, the task
\* array and the counters are those that the same calls give when made one
\* after the other in some order.
C30_Serializable ==
    /\ Cardinality({c \in Threads : calls[c].pc \in {"read", "write", "count"}}) <= 1
    /\ NoneInFlight /\ ~Quiet
           => \E o \in Orders(Returned) :
                  Ledger(rules[TheRule]) = Ledger(Serial(startRule, o, 1))

\* all three threads have made a call that changed the rule: the sweep found
\* a lease timed out, a bid was granted and a hand-in was taken
C30_Witness ==
    /\ NoneInFlight
    /\ Returned = Threads
    /\ calls[SweepThread].P # {}
    /\ \E c \in Callers : calls[c].op = "bid" /\ calls[c].P # {}
    /\ \E c \in Callers : calls[c].op = "mark_complete"

\* C34: in every reachable state the average cost a rule reports (avCost) is
\* the mean of the recorded costs of its tasks whose status is above
\* Available, and 0 when there is no such task
C34_AvCostIsMean ==
    \A q \in DOMAIN rules : rules[q].avCost = update_cost(rules[q]).avCost

\* C37: the grant list of a bid names no task twice, and the bid moves
\* nAvailable down and nAssigned up by the number of tasks whose status went
\* from Available to Assigned
C37_GrantsDistinct ==
    \A q \in DOMAIN rules :
        \A ids \in IDLists(Size(rules[q])) :
            LET r == rules[q]
                res == bid(r, ids, UnitCosts(ids), now)
                changed == {k \in DOMAIN r.task_info :
                               /\ Status(r, k) = STATUS_AVAILABLE
                               /\ Status(res.rule, k) = STATUS_ASSIGNED}
            IN  res.err = ""
                    => /\ \A i, j \in 1..Len(res.ids) : res.ids[i] = res.ids[j] => i = j
                       /\ res.rule.nAssigned = r.nAssigned + Cardinality(changed)
                       /\ res.rule.nAvailable = r.nAvailable - Cardinality(changed)

\* C35: add_integer_id_rule called with the ruleID of a registered rule does
\* not replace that rule: its task statuses, leases and counters stay as they
\* were
C35_AddKeepsRegistered ==
    \A q \in (DOMAIN rules) \cap UserRuleIDs :
        \A m \in 1..MaxTasks, timeout \in RuleTimeouts :
            LET res == AddResult(rules, ruleOrder, rule_n, q, m, <<>>, timeout, <<>>, now)
            IN  res.rules[q] = rules[q]

\* C36: when the sweep removes a rule as finished, every task of the rule in
\* [0, maxTaskID) is Complete and no task of the rule is Assigned or
\* Available
C36_FinishedAllComplete ==
    [][\A q \in DOMAIN rules :
           (IsCheckOf(q) /\ finished(rules[q]))
           => /\ \A k \in 0..(rules[q].n_max - 1) :
                     k \in DOMAIN rules[q].task_info
                     /\ Status(rules[q], k) = STATUS_COMPLETE
              /\ \A k \in DOMAIN rules[q].task_info :
                     Status(rules[q], k) \notin {STATUS_ASSIGNED, STATUS_AVAILABLE}]_vars

\* C33: a rule is registered under a generated id only in the sweep step
\* that removes a finished rule with a follow-on descriptor, and carries the
\* rest of that rule's descriptor; the step that adds a rule registers that
\* rule alone; the removal of an expired rule registers nothing; so a rule
\* and a later stage of its chain are never registered together.
C33_OnlyAtRemoval ==
    /\ \A f \in (DOMAIN rules') \ (DOMAIN rules) :
           f[1] = "auto"
           => \E q \in DOMAIN rules :
                  /\ IsCheckOf(q)
                  /\ finished(rules[q])
                  /\ q \notin DOMAIN rules'
                  /\ rules[q].on_completion # <<>>
                  /\ rules'[f].on_completion = Tail(rules[q].on_completion)
                  /\ Size(rules'[f]) = rules[q].on_completion[1].max_tasks
    /\ \A q \in DOMAIN rules :
           (IsCheckOf(q) /\ ~finished(rules[q]) /\ expired(rules[q], now))
           => DOMAIN rules' = (DOMAIN rules) \ {q}

C33_NeverEager ==
    [][C33_OnlyAtRemoval]_vars /\ [](Cardinality(DOMAIN rules) <= 1)

\* the last stage of a chain of two follow-ons is registered, after the rule
\* and the first stage were removed
C33_Witness ==
    /\ rule_n = MaxChainDeep + 1
    /\ DOMAIN rules = {AutoID(MaxChainDeep)}
    /\ rules[AutoID(MaxChainDeep)].on_completion = <<>>

\* C38: with the sweep running and the clock advancing, a rule that is
\* inactivated, holds no lease any more, is past its expiry time and gets no
\* further request is eventually removed from the registry
C38_InactiveRemoved ==
    \A q \in UserRuleIDs :
        (/\ q \in DOMAIN rules
         /\ ~rules[q].active
         /\ \A k \in DOMAIN rules[q].task_info : Status(rules[q], k) # STATUS_ASSIGNED
         /\ now > rules[q].expiry)
        ~> (q \notin DOMAIN rules)

\* the generated ids of the rules of one run
LiveIDs == {AutoID(n) : n \in 0..MaxAddsLive}

\* C39: while a rule is registered, the sweep calls poll_timeouts on it again
\* and again
C39_SweepKeepsPolling ==
    \A q \in LiveIDs :
        (q \in DOMAIN rules)
        ~> (q \notin DOMAIN rules \/ (sweepPc = "check" /\ Head(sweepKeys) = q))

\* C31: a request that was answered without an error was applied to a rule
\* that was in the registry when it was applied: no bid, hand-in, release or
\* inactivation reaches a rule the sweep has already removed
C31_AppliedWhileRegistered ==
    \A c \in Callers :
        (reqs[c].pc = "done" /\ reqs[c].out = "ok") => ~reqs[c].removed

\* the place of a lock in the order: the server's locks, then for each rule
\* its task-array lock and its advertisement-cache lock
Rank(l) ==
    IF l[1] = "server"
    THEN (IF l[3] = "info" THEN 0 ELSE IF l[3] = "rule" THEN 1 ELSE 2)
    ELSE 1 + 2 * l[2] + (IF l[3] = "info" THEN 0 ELSE 1)

\* C32: the locks a thread holds were taken in the order of their rank
\* (server locks before rule locks, a rule's task-array lock before its
\* advertisement-cache lock); a thread that has ended an operation, failed
\* or not, holds no lock; and whenever a thread waits for a lock, some
\* thread can take a step, so the threads never all wait for each other.
C32_LockOrder ==
    /\ \A c \in Threads :
           \A i, j \in DOMAIN lockers[c].stack :
               i < j => Rank(lockers[c].stack[i]) < Rank(lockers[c].stack[j])
    /\ \A c \in Threads : Finished(c) => lockers[c].stack = <<>>
    /\ \A l \in Locks :
           held[l] # NoThread => l \in Range(lockers[held[l]].stack)
    /\ (\E c \in Threads : Waiting(c))
           => \E c \in Threads : ~Finished(c) /\ ~Waiting(c)

\* a mark_datasource_complete that is going to fail with ValueError holds
\* the server's rule lock and both locks of the rule, while another thread
\* waits for one of them
C32_Witness ==
    \E c, x \in Threads :
        /\ lockers[c].op = "mark_datasource_complete"
        /\ lockers[c].v = "ValueError"
        /\ Len(lockers[c].stack) = 3
        /\ Waiting(x)

====
